---- MODULE Spec2Model ----
(***************************************************************************)
(* The contribution-analysis engine of                                     *)
(* skills/tools-repo-review/scripts/repo_review_om.py: the classifier      *)
(* (should_exclude_file, should_exclude_author, get_file_category), the    *)
(* line-oriented log parser (parse_git_log) and the cross-repository fold  *)
(* (analyze_repos).                                                        *)
(*                                                                         *)
(* Text (a log, a line, a path, an author name, a count field) is a        *)
(* sequence of one-character strings, so that str.strip, str.split,        *)
(* os.path.splitext, fnmatch, int() and strptime are computed the way the  *)
(* Python library computes them.                                           *)
(***************************************************************************)
EXTENDS Integers, Sequences, FiniteSets, TLC

\* ---------------------------------------------------------------- bounds
\* Longest log, in lines, that the parser is run on.
MaxLines == 3
\* Longest list of repositories that analyze_repos is run on.
MaxRepos == 2
\* Longest log, in commits, that the parser is run on commit by commit.
MaxCommits == 2

\* ------------------------------------------------------- Python's library
\* Python's None, for a text-valued variable (no text holds the element "None").
None == <<"None">>

\* The ASCII characters str.strip() and int() treat as whitespace.
Whitespace == {" ", "\t", "\n", "\r", "\f"}

DigitChars == <<"0", "1", "2", "3", "4", "5", "6", "7", "8", "9">>

IsDigit(c) == \E k \in 1..10 : DigitChars[k] = c

DigitVal(c) == (CHOOSE k \in 1..10 : DigitChars[k] = c) - 1

UpperChars == <<"A","B","C","D","E","F","G","H","I","J","K","L","M",
                "N","O","P","Q","R","S","T","U","V","W","X","Y","Z">>

LowerChars == <<"a","b","c","d","e","f","g","h","i","j","k","l","m",
                "n","o","p","q","r","s","t","u","v","w","x","y","z">>

\* str.lower(), on ASCII text.
lower(s) ==
  [k \in 1..Len(s) |->
     IF \E u \in 1..26 : UpperChars[u] = s[k]
     THEN LowerChars[CHOOSE u \in 1..26 : UpperChars[u] = s[k]]
     ELSE s[k]]

\* str.strip(): leading and trailing whitespace removed.
strip(s) ==
  LET keep == {k \in 1..Len(s) : s[k] \notin Whitespace}
  IN IF keep = {} THEN <<>>
     ELSE SubSeq(s, CHOOSE k \in keep : \A j \in keep : k <= j,
                    CHOOSE k \in keep : \A j \in keep : j <= k)

\* str.rstrip(chars): trailing characters of the set removed.
rstrip(s, chars) ==
  LET keep == {k \in 1..Len(s) : s[k] \notin chars}
  IN IF keep = {} THEN <<>>
     ELSE SubSeq(s, 1, CHOOSE k \in keep : \A j \in keep : j <= k)

\* str.split(sep) for a one-character separator: always at least one field,
\* the text between consecutive occurrences of the separator.
split(s, sep) ==
  LET at == {k \in 1..Len(s) : s[k] = sep}
      n  == Cardinality(at)
      cut(j) == IF j = 0 THEN 0
                ELSE IF j = n + 1 THEN Len(s) + 1
                ELSE CHOOSE k \in at : Cardinality({i \in at : i < k}) = j - 1
  IN [j \in 1..(n + 1) |-> SubSeq(s, cut(j - 1) + 1, cut(j) - 1)]

\* str.startswith(prefix).
startswith(s, prefix) ==
  Len(s) >= Len(prefix) /\ SubSeq(s, 1, Len(prefix)) = prefix

\* The `sub in s` test on strings.
contains(s, sub) ==
  \E k \in 0..(Len(s) - Len(sub)) : SubSeq(s, k + 1, k + Len(sub)) = sub

\* str.rfind(c) for one character, 1-based: 0 when c does not occur.
rfind(s, c) ==
  LET at == {k \in 1..Len(s) : s[k] = c}
  IN IF at = {} THEN 0 ELSE CHOOSE k \in at : \A j \in at : j <= k

\* os.path.basename (posixpath): what follows the last "/".
basename(p) == SubSeq(p, rfind(p, "/") + 1, Len(p))

\* The extension os.path.splitext (posixpath) returns: from the last dot of
\* the last component on, or empty when that component has no dot or only
\* leading dots before it.
splitext(p) ==
  LET sepIndex == rfind(p, "/")
      dotIndex == rfind(p, ".")
  IN IF dotIndex > sepIndex
        /\ \E k \in (sepIndex + 1)..(dotIndex - 1) : p[k] # "."
     THEN SubSeq(p, dotIndex, Len(p))
     ELSE <<>>

\* fnmatch.fnmatch on POSIX (case-sensitive): "*" matches any run of
\* characters, "/" included, "?" any one character.  No pattern of
\* EXCLUDE_PATTERNS holds a "[", so character classes are never reached.
\* The pattern is cut at its stars: the first piece must open the name, the
\* last must close it, and the pieces between are found left to right, each
\* at the first place after the one before.
fnmatch(name, pat) ==
  LET segs == split(pat, "*")
      n    == Len(segs)
      SegAt(seg, p) ==
        /\ p >= 0 /\ p + Len(seg) <= Len(name)
        /\ \A k \in 1..Len(seg) : seg[k] = "?" \/ seg[k] = name[p + k]
      RECURSIVE place(_, _)
      place(k, from) ==
        IF k >= n THEN from
        ELSE LET at == {p \in from..Len(name) : SegAt(segs[k], p)}
             IN IF at = {} THEN -1
                ELSE place(k + 1, (CHOOSE p \in at : \A q \in at : p <= q) + Len(segs[k]))
  IN IF n = 1 THEN Len(name) = Len(pat) /\ SegAt(pat, 0)
     ELSE /\ SegAt(segs[1], 0)
          /\ LET end == place(2, Len(segs[1]))
             IN /\ end # -1 /\ end <= Len(name) - Len(segs[n])
                /\ SegAt(segs[n], Len(name) - Len(segs[n]))

\* int(text): surrounding whitespace stripped, an optional sign, then digits
\* with single underscores allowed between digits.  ok is FALSE where
\* Python raises ValueError.
PyInt(text) ==
  LET t    == strip(text)
      neg  == Len(t) > 0 /\ t[1] = "-"
      body == IF Len(t) > 0 /\ t[1] \in {"+", "-"} THEN SubSeq(t, 2, Len(t)) ELSE t
      wellFormed ==
        /\ Len(body) > 0
        /\ \A k \in 1..Len(body) :
             \/ IsDigit(body[k])
             \/ /\ body[k] = "_"
                /\ k > 1 /\ k < Len(body)
                /\ IsDigit(body[k - 1]) /\ IsDigit(body[k + 1])
      RECURSIVE val(_, _)
      val(k, acc) ==
        IF k > Len(body) THEN acc
        ELSE IF body[k] = "_" THEN val(k + 1, acc)
        ELSE val(k + 1, 10 * acc + DigitVal(body[k]))
  IN IF wellFormed
     THEN [ok |-> TRUE, val |-> IF neg THEN 0 - val(1, 0) ELSE val(1, 0)]
     ELSE [ok |-> FALSE, val |-> 0]

\* ------------------------------------------------------------- calendar
IsLeap(y) == y % 4 = 0 /\ (y % 100 # 0 \/ y % 400 = 0)

DaysInMonth(y, mo) ==
  IF mo = 2 THEN (IF IsLeap(y) THEN 29 ELSE 28)
  ELSE IF mo \in {4, 6, 9, 11} THEN 30 ELSE 31

\* date.toordinal(): 0001-01-01 is day 1.
RECURSIVE DaysBeforeMonth(_, _)
DaysBeforeMonth(y, mo) ==
  IF mo = 1 THEN 0 ELSE DaysBeforeMonth(y, mo - 1) + DaysInMonth(y, mo - 1)

toordinal(y, mo, d) ==
  (y - 1) * 365 + (y - 1) \div 4 - (y - 1) \div 100 + (y - 1) \div 400
    + DaysBeforeMonth(y, mo) + d

\* datetime.weekday() of the day with this ordinal: Monday is 0.
weekday(ord) == (ord + 6) % 7

Number(ds) ==
  LET RECURSIVE val(_, _)
      val(k, acc) == IF k > Len(ds) THEN acc ELSE val(k + 1, 10 * acc + DigitVal(ds[k]))
  IN val(1, 0)

\* datetime.strptime(text, "%Y-%m-%d"): the whole text must be four digits,
\* "-", a month (1[0-2] | 0[1-9] | [1-9]), "-", a day (3[01] | [12]\d |
\* 0[1-9] | [1-9] | " "[1-9]), and name a day of the calendar from year 1
\* on.  The value is <<ordinal>>; <<>> where Python raises ValueError (the
\* parser then stores None).
strptime(text) ==
  LET f  == split(text, "-")
      Y  == f[1]
      mo == f[2]
      d  == IF Len(f[3]) = 2 /\ f[3][1] = " " THEN SubSeq(f[3], 2, 2) ELSE f[3]
      shaped ==
        /\ Len(f) = 3
        /\ Len(Y) = 4 /\ \A k \in 1..4 : IsDigit(Y[k])
        /\ Len(mo) \in {1, 2} /\ \A k \in 1..Len(mo) : IsDigit(mo[k])
        /\ Len(d) \in {1, 2} /\ \A k \in 1..Len(d) : IsDigit(d[k])
        /\ Number(mo) \in 1..12
        /\ Number(d) \in 1..31
  IN IF shaped /\ Number(Y) >= 1 /\ Number(d) <= DaysInMonth(Number(Y), Number(mo))
     THEN <<toordinal(Number(Y), Number(mo), Number(d))>>
     ELSE <<>>

\* -------------------------------------------------------- configuration
DOC_EXTENSIONS == { <<".","m","d">>, <<".","m","d","x">>, <<".","r","s","t">>, <<".","t","x","t">> }

EXCLUDE_AUTHORS ==
  << <<"g","p","t","-","e","n","g","i","n","e","e","r","-","a","p","p","[","b","o","t","]">>, <<"d","e","p","e","n","d","a","b","o","t","[","b","o","t","]">>, <<"r","e","n","o","v","a","t","e","[","b","o","t","]">>,
     <<"g","i","t","h","u","b","-","a","c","t","i","o","n","s","[","b","o","t","]">>, <<"c","u","r","s","o","r"," ","a","g","e","n","t">>, <<"c","o","p","i","l","o","t">> >>

EXCLUDE_PATTERNS ==
  << <<"n","o","d","e","_","m","o","d","u","l","e","s","/","*">>,
     <<"v","e","n","d","o","r","/","*">>,
     <<"v","e","n","v","/","*">>,
     <<".","v","e","n","v","/","*">>,
     <<"d","i","s","t","/","*">>,
     <<"b","u","i","l","d","/","*">>,
     <<"c","o","v","e","r","a","g","e","/","*">>,
     <<".","n","e","x","t","/","*">>,
     <<"o","u","t","/","*">>,
     <<"p","a","c","k","a","g","e","-","l","o","c","k",".","j","s","o","n">>,
     <<"p","n","p","m","-","l","o","c","k",".","y","a","m","l">>,
     <<"y","a","r","n",".","l","o","c","k">>,
     <<"C","a","r","g","o",".","l","o","c","k">>,
     <<"G","e","m","f","i","l","e",".","l","o","c","k">>,
     <<"p","o","e","t","r","y",".","l","o","c","k">>,
     <<"*",".","l","o","c","k">>,
     <<"*",".","g","e","n","e","r","a","t","e","d",".","*">>,
     <<"*",".","d",".","t","s">>,
     <<"t","y","p","e","s",".","t","s">>,
     <<"l","o","g","s","/","*">>,
     <<"*",".","l","o","g">>,
     <<"t","e","m","p","/","*">>,
     <<"t","m","p","/","*">>,
     <<"*",".","m","i","n",".","j","s">>,
     <<"*",".","m","i","n",".","c","s","s">>,
     <<"*",".","j","p","g">>,
     <<"*",".","j","p","e","g">>,
     <<"*",".","p","n","g">>,
     <<"*",".","g","i","f">>,
     <<"*",".","s","v","g">>,
     <<"*",".","i","c","o">>,
     <<"*",".","w","o","f","f">>,
     <<"*",".","w","o","f","f","2">>,
     <<"*",".","t","t","f">>,
     <<"*",".","e","o","t">>,
     <<"*",".","m","p","4">>,
     <<"*",".","m","p","3">>,
     <<"*",".","w","a","v">>,
     <<"*",".","p","d","f">>,
     <<"*",".","z","i","p">>,
     <<"*",".","t","a","r">>,
     <<"*",".","g","z">>,
     <<".","c","u","r","s","o","r","/","*">>,
     <<".","v","s","c","o","d","e","/","*">>,
     <<".","i","d","e","a","/","*">>,
     <<"*",".","t","f","s","t","a","t","e">>,
     <<"*",".","t","f","s","t","a","t","e",".","*">>,
     <<".","b","m","a","d","/","*">>,
     <<"b","m","a","d","/","*">>,
     <<"*",".","e","x","c","a","l","i","d","r","a","w">>,
     <<"*",".","m","a","p">>,
     <<".","g","i","t","/","*">>,
     <<".","D","S","_","S","t","o","r","e">>,
     <<"T","h","u","m","b","s",".","d","b">> >>

FILE_CATEGORIES ==
  { <<<<".","t","s","x">>, "frontend">>,
    <<<<".","j","s","x">>, "frontend">>,
    <<<<".","v","u","e">>, "frontend">>,
    <<<<".","s","v","e","l","t","e">>, "frontend">>,
    <<<<".","c","s","s">>, "frontend">>,
    <<<<".","s","c","s","s">>, "frontend">>,
    <<<<".","s","a","s","s">>, "frontend">>,
    <<<<".","l","e","s","s">>, "frontend">>,
    <<<<".","h","t","m","l">>, "frontend">>,
    <<<<".","h","t","m">>, "frontend">>,
    <<<<".","p","y">>, "backend">>,
    <<<<".","g","o">>, "backend">>,
    <<<<".","r","s">>, "backend">>,
    <<<<".","j","a","v","a">>, "backend">>,
    <<<<".","r","b">>, "backend">>,
    <<<<".","p","h","p">>, "backend">>,
    <<<<".","c","s">>, "backend">>,
    <<<<".","c","p","p">>, "backend">>,
    <<<<".","c">>, "backend">>,
    <<<<".","h">>, "backend">>,
    <<<<".","t","s">>, "fullstack">>,
    <<<<".","j","s">>, "fullstack">>,
    <<<<".","m","j","s">>, "fullstack">>,
    <<<<".","c","j","s">>, "fullstack">>,
    <<<<".","s","q","l">>, "database">>,
    <<<<".","p","r","i","s","m","a">>, "database">>,
    <<<<".","g","r","a","p","h","q","l">>, "database">>,
    <<<<".","g","q","l">>, "database">>,
    <<<<".","y","m","l">>, "config">>,
    <<<<".","y","a","m","l">>, "config">>,
    <<<<".","t","o","m","l">>, "config">>,
    <<<<".","i","n","i">>, "config">>,
    <<<<".","j","s","o","n">>, "config">>,
    <<<<".","e","n","v">>, "config">>,
    <<<<".","c","o","n","f">>, "config">>,
    <<<<".","t","f">>, "infra">>,
    <<<<".","t","f","v","a","r","s">>, "infra">>,
    <<<<".","h","c","l">>, "infra">>,
    <<<<".","d","o","c","k","e","r","f","i","l","e">>, "infra">>,
    <<<<".","d","o","c","k","e","r","i","g","n","o","r","e">>, "infra">>,
    <<<<".","m","d">>, "docs">>,
    <<<<".","m","d","x">>, "docs">>,
    <<<<".","r","s","t">>, "docs">>,
    <<<<".","t","x","t">>, "docs">>,
    <<<<".","s","h">>, "scripts">>,
    <<<<".","b","a","s","h">>, "scripts">>,
    <<<<".","z","s","h">>, "scripts">>,
    <<<<".","f","i","s","h">>, "scripts">>,
    <<<<".","p","s","1">>, "scripts">>,
    <<<<".","b","a","t">>, "scripts">>,
    <<<<".","c","m","d">>, "scripts">>,
    <<<<".","t","e","s","t",".","t","s">>, "testing">>,
    <<<<".","t","e","s","t",".","j","s">>, "testing">>,
    <<<<".","s","p","e","c",".","t","s">>, "testing">>,
    <<<<".","s","p","e","c",".","j","s">>, "testing">>,
    <<<<".","t","e","s","t",".","t","s","x">>, "testing">>,
    <<<<".","t","e","s","t",".","j","s","x">>, "testing">> }

\* ------------------------------------------------------------ classifier
\* FILE_CATEGORIES.get(ext, "other")
CategoryOfExt(ext) ==
  IF \E e \in FILE_CATEGORIES : e[1] = ext
  THEN (CHOOSE e \in FILE_CATEGORIES : e[1] = ext)[2]
  ELSE "other"

get_file_category_DockerfileFirst(filepath) ==
  LET base == lower(basename(filepath))
  IN IF base = <<"d","o","c","k","e","r","f","i","l","e">> \/ startswith(base, <<"d","o","c","k","e","r","f","i","l","e",".">>)
     THEN "infra"
     ELSE IF contains(base, <<".","t","e","s","t",".">>) \/ contains(base, <<".","s","p","e","c",".">>)
             \/ contains(base, <<"_","t","e","s","t",".">>)
     THEN "testing"
     ELSE CategoryOfExt(splitext(lower(filepath)))

get_file_category(filepath) ==
  LET base == lower(basename(filepath))
  IN IF contains(base, <<".","t","e","s","t",".">>) \/ contains(base, <<".","s","p","e","c",".">>)
        \/ contains(base, <<"_","t","e","s","t",".">>)
     THEN "testing"
     ELSE IF base = <<"d","o","c","k","e","r","f","i","l","e">> \/ startswith(base, <<"d","o","c","k","e","r","f","i","l","e",".">>)
     THEN "infra"
     ELSE CategoryOfExt(splitext(lower(filepath)))

\* One pass of the loop over EXCLUDE_PATTERNS.
PatternExcludes(filepath, pattern) ==
  \/ fnmatch(filepath, pattern)
  \/ fnmatch(filepath, <<"*","/">> \o pattern)
  \/ fnmatch(basename(filepath), pattern)
  \/ /\ contains(pattern, <<"/">>)
     /\ LET dir_pattern == rstrip(rstrip(pattern, {"/", "*"}), {"*"})
        IN dir_pattern # <<>> /\ contains(lower(filepath), dir_pattern)

\* Mutant: the documentation rule looks at the extension as written.
should_exclude_file_DocsAsWritten(filepath, excludeDocs) ==
  \/ excludeDocs /\ splitext(filepath) \in DOC_EXTENSIONS
  \/ \E k \in 1..Len(EXCLUDE_PATTERNS) : PatternExcludes(filepath, EXCLUDE_PATTERNS[k])

\* should_exclude_file, with the module global EXCLUDE_DOCS it reads passed
\* as excludeDocs.
should_exclude_file(filepath, excludeDocs) ==
  \/ excludeDocs /\ splitext(lower(filepath)) \in DOC_EXTENSIONS
  \/ \E k \in 1..Len(EXCLUDE_PATTERNS) : PatternExcludes(filepath, EXCLUDE_PATTERNS[k])

should_exclude_author(author) ==
  \E k \in 1..Len(EXCLUDE_AUTHORS) :
    contains(lower(author), lower(EXCLUDE_AUTHORS[k]))

\* ----------------------------------------------------------- input lines
\* The lines the logs under check are made of (NumstatReadme: of the
\* repositories' logs only).
MarkerAlice     == <<"C","O","M","M","I","T","|","a","1","|","A","l","i","c","e","|","2","0","2","5","-","0","1","-","0","6">>
MarkerBob       == <<"C","O","M","M","I","T","|","b","2","|","B","o","b","|","2","0","2","5","-","0","1","-","1","5">>
MarkerBot       == <<"C","O","M","M","I","T","|","c","3","|","d","e","p","e","n","d","a","b","o","t","[","b","o","t","]","|","2","0","2","5","-","0","1","-","0","6">>
MarkerNoDate    == <<"C","O","M","M","I","T","|","d","4","|","A","l","i","c","e","|","u","n","k","n","o","w","n">>
MarkerShort     == <<"C","O","M","M","I","T","|","e","5","|","B","o","b">>
NumstatTs       == <<"5","\t","2","\t","s","r","c","/","a","p","p",".","t","s">>
NumstatMakefile == <<"3","\t","0","\t","M","a","k","e","f","i","l","e">>
NumstatNegative == <<"-","5","\t","1","\t","x",".","p","y">>
NumstatBinary   == <<"4","\t","-","\t","x",".","p","y">>
NumstatLockfile == <<"7","\t","1","\t","p","a","c","k","a","g","e","-","l","o","c","k",".","j","s","o","n">>
NumstatTrailing == <<"1","\t","1","\t","a",".","p","y"," ">>
NumstatReadme   == <<"2","\t","0","\t","R","E","A","D","M","E",".","m","d">>

PoolLines ==
  { MarkerAlice, MarkerBob, MarkerBot, MarkerNoDate, MarkerShort,
    NumstatTs, NumstatMakefile, NumstatNegative, NumstatBinary,
    NumstatLockfile, NumstatTrailing }

\* The paths of those lines, as written and as the strip of the whole log
\* leaves the path of a last line.
PoolPaths ==
  LET written == {split(l, "\t")[3] :
                    l \in {x \in PoolLines \cup {NumstatReadme} : Len(split(x, "\t")) = 3}}
  IN written \cup {strip(p) : p \in written}

\* should_exclude_file on the paths of the pool, evaluated once.
ExcludedPoolPaths ==
  [excludeDocs \in BOOLEAN |-> {p \in PoolPaths : should_exclude_file(p, excludeDocs)}]

\* should_exclude_file(filepath) as the parser calls it: the value is that
\* of should_exclude_file, read from the table for a path of the pool.
ExcludeFile(filepath, excludeDocs) ==
  IF filepath \in PoolPaths THEN filepath \in ExcludedPoolPaths[excludeDocs]
  ELSE should_exclude_file(filepath, excludeDocs)

\* ---------------------------------------------------------- accumulators
\* A defaultdict is a function whose domain is the keys touched so far.
EmptyMap == <<>>

\* The default factories of parse_git_log's and analyze_repos' defaultdicts.
NewBucket == [inserts |-> 0, deletes |-> 0]

NewWeek == [inserts |-> 0, deletes |-> 0, commits |-> {}]

NewAuthorStats ==
  [commits |-> {}, inserts |-> 0, deletes |-> 0,
   weekly |-> EmptyMap, by_ext |-> EmptyMap, by_category |-> EmptyMap]

\* d[key], creating the default entry when the key is new.
Lookup(d, key, default) == IF key \in DOMAIN d THEN d[key] ELSE default

\* d[key] = value
Store(d, key, value) == (key :> value) @@ d

\* d[key]["inserts"] += ins; d[key]["deletes"] += dels
AddCounts(d, key, ins, dels) ==
  LET b == Lookup(d, key, NewBucket)
  IN Store(d, key, [inserts |-> b.inserts + ins, deletes |-> b.deletes + dels])

\* Mutant: only the first hash of an author is kept.
AddCommit_KeepFirst(commits, current_commit) ==
  IF commits = {} THEN {current_commit} ELSE commits

\* stats[current_author]["commits"].add(current_commit)
AddCommit(commits, current_commit) == commits \cup {current_commit}

\* Track by file extension: only a non-empty extension gets a bucket.
TrackExtension(by_ext, filepath, ins, dels) ==
  LET ext == splitext(lower(filepath))
  IN IF ext # <<>> THEN AddCounts(by_ext, ext, ins, dels) ELSE by_ext

\* Mutant: the category update guarded the way the extension update is.
TrackCategory_SkipOther(by_category, filepath, ins, dels) ==
  IF get_file_category(filepath) # "other"
  THEN AddCounts(by_category, get_file_category(filepath), ins, dels)
  ELSE by_category

\* Track by work category.
TrackCategory(by_category, filepath, ins, dels) ==
  AddCounts(by_category, get_file_category(filepath), ins, dels)

\* Mutant: the weekly bucket is keyed by the commit's own day.
TrackWeek_KeyByDay(weekly, current_date, current_commit, ins, dels) ==
  IF current_date # <<>>
  THEN LET w == Lookup(weekly, current_date[1], NewWeek)
       IN Store(weekly, current_date[1],
                [inserts |-> w.inserts + ins, deletes |-> w.deletes + dels,
                 commits |-> w.commits \cup {current_commit}])
  ELSE weekly

\* The weekly bucket of the Monday on or before the commit's date; nothing
\* when the date is None.  A date is <<ordinal>>, None is <<>>.
TrackWeek(weekly, current_date, current_commit, ins, dels) ==
  IF current_date # <<>>
  THEN LET week_start == current_date[1] - weekday(current_date[1])
           w == Lookup(weekly, week_start, NewWeek)
       IN Store(weekly, week_start,
                [inserts |-> w.inserts + ins, deletes |-> w.deletes + dels,
                 commits |-> w.commits \cup {current_commit}])
  ELSE weekly

\* The body of the try block once both counts are parsed.
Accumulate(acc, ins, dels, filepath, current_commit, current_date) ==
  [commits     |-> AddCommit(acc.commits, current_commit),
   inserts     |-> acc.inserts + ins,
   deletes     |-> acc.deletes + dels,
   by_ext      |-> TrackExtension(acc.by_ext, filepath, ins, dels),
   by_category |-> TrackCategory(acc.by_category, filepath, ins, dels),
   weekly      |-> TrackWeek(acc.weekly, current_date, current_commit, ins, dels)]

\* ---------------------------------------------------------------- parser
\* The locals of parse_git_log before the loop.  A dict keeps its keys in
\* insertion order: `order` is that order for `stats`, which
\* stats.items() follows in analyze_repos.
ParserStart ==
  [stats |-> EmptyMap, order |-> <<>>, current_author |-> None,
   current_commit |-> None, current_date |-> <<>>]

\* Mutant: an empty author name counts as an author.
Truthy_NotNone(text) == text # None

\* `current_author` as a condition: neither None nor the empty string.
Truthy(text) == text # None /\ text # <<>>

\* Mutant: an excluded author's marker is passed over with `continue`
\* before current_author is reset.
MarkerLine_KeepAuthor(st, line) ==
  LET parts == split(line, "|")
  IN IF Len(parts) >= 4
     THEN LET author_name == strip(parts[3])
          IN IF should_exclude_author(author_name)
             THEN [st EXCEPT !.current_commit = parts[2]]
             ELSE [st EXCEPT !.current_commit = parts[2],
                             !.current_author = author_name,
                             !.current_date = strptime(parts[4])]
     ELSE st

\* Mutant: a date that does not parse leaves current_date as it was.
MarkerLine_KeepDate(st, line) ==
  LET parts == split(line, "|")
  IN IF Len(parts) >= 4
     THEN LET author_name == strip(parts[3])
          IN IF should_exclude_author(author_name)
             THEN [st EXCEPT !.current_commit = parts[2],
                             !.current_author = None]
             ELSE [st EXCEPT !.current_commit = parts[2],
                             !.current_author = author_name,
                             !.current_date =
                               IF strptime(parts[4]) # <<>> THEN strptime(parts[4])
                               ELSE st.current_date]
     ELSE st

\* Mutant: the commit is added to its author's set when the marker is read.
MarkerLine_CountsCommit(st, line) ==
  LET parts == split(line, "|")
  IN IF Len(parts) >= 4
     THEN LET author_name == strip(parts[3])
              entry == Lookup(st.stats, author_name, NewAuthorStats)
          IN IF should_exclude_author(author_name)
             THEN [st EXCEPT !.current_commit = parts[2],
                             !.current_author = None]
             ELSE [st EXCEPT !.current_commit = parts[2],
                             !.current_author = author_name,
                             !.current_date = strptime(parts[4]),
                             !.stats = Store(st.stats, author_name,
                                         [entry EXCEPT !.commits = @ \cup {parts[2]}]),
                             !.order = IF author_name \in DOMAIN st.stats THEN st.order
                                       ELSE Append(st.order, author_name)]
     ELSE st

\* Mutant: the author name is taken as written, without the strip.
MarkerLine_RawAuthor(st, line) ==
  LET parts == split(line, "|")
  IN IF Len(parts) >= 4
     THEN LET author_name == parts[3]
          IN IF should_exclude_author(author_name)
             THEN [st EXCEPT !.current_commit = parts[2],
                             !.current_author = None]
             ELSE [st EXCEPT !.current_commit = parts[2],
                             !.current_author = author_name,
                             !.current_date = strptime(parts[4])]
     ELSE st

\* Mutant: a marker of fewer than four fields ends the commit before it.
MarkerLine_ShortEndsCommit(st, line) ==
  LET parts == split(line, "|")
  IN IF Len(parts) >= 4
     THEN LET author_name == strip(parts[3])
          IN IF should_exclude_author(author_name)
             THEN [st EXCEPT !.current_commit = parts[2],
                             !.current_author = None]
             ELSE [st EXCEPT !.current_commit = parts[2],
                             !.current_author = author_name,
                             !.current_date = strptime(parts[4])]
     ELSE [st EXCEPT !.current_author = None]

\* The branch for a line that starts with "COMMIT|".
MarkerLine(st, line) ==
  LET parts == split(line, "|")
  IN IF Len(parts) >= 4
     THEN LET author_name == strip(parts[3])
          IN IF should_exclude_author(author_name)
             THEN [st EXCEPT !.current_commit = parts[2],
                             !.current_author = None]
             ELSE [st EXCEPT !.current_commit = parts[2],
                             !.current_author = author_name,
                             !.current_date = strptime(parts[4])]
     ELSE st

\* The counts of a numstat line that is not skipped: the two int() calls
\* come first in the try block, so a ValueError leaves nothing half done.
ParseCounts(insertions, deletions) ==
  LET ins  == PyInt(insertions)
      dels == PyInt(deletions)
  IN [ok |-> ins.ok /\ dels.ok, ins |-> ins.val, dels |-> dels.val]

\* Mutant: a "-" count is taken as 0 and the line is counted.
NumstatLine_BinaryAsZero(st, line, excludeDocs) ==
  LET parts == split(line, "\t")
  IN IF Len(parts) = 3 /\ Truthy(st.current_author)
     THEN LET insertions == IF parts[1] = <<"-">> THEN <<"0">> ELSE parts[1]
              deletions  == IF parts[2] = <<"-">> THEN <<"0">> ELSE parts[2]
              filepath   == parts[3]
              counts     == ParseCounts(insertions, deletions)
          IN IF ExcludeFile(filepath, excludeDocs) THEN st
             ELSE IF ~counts.ok THEN st
             ELSE [st EXCEPT
                     !.stats =
                       Store(st.stats, st.current_author,
                             Accumulate(Lookup(st.stats, st.current_author, NewAuthorStats),
                                        counts.ins, counts.dels, filepath,
                                        st.current_commit, st.current_date)),
                     !.order =
                       IF st.current_author \in DOMAIN st.stats THEN st.order
                       ELSE Append(st.order, st.current_author)]
     ELSE st

\* Mutant: the commit is added to the author's set before the path is
\* tested for exclusion.
NumstatLine_CommitBeforeExclude(st, line, excludeDocs) ==
  LET parts == split(line, "\t")
  IN IF Len(parts) = 3 /\ Truthy(st.current_author)
     THEN LET insertions == parts[1]
              deletions  == parts[2]
              filepath   == parts[3]
              counts     == ParseCounts(insertions, deletions)
              entry      == Lookup(st.stats, st.current_author, NewAuthorStats)
              touched    ==
                [st EXCEPT
                   !.stats = Store(st.stats, st.current_author,
                               [entry EXCEPT !.commits = @ \cup {st.current_commit}]),
                   !.order = IF st.current_author \in DOMAIN st.stats THEN st.order
                             ELSE Append(st.order, st.current_author)]
          IN IF insertions = <<"-">> \/ deletions = <<"-">> THEN st
             ELSE IF ExcludeFile(filepath, excludeDocs) THEN touched
             ELSE IF ~counts.ok THEN st
             ELSE [st EXCEPT
                     !.stats =
                       Store(st.stats, st.current_author,
                             Accumulate(Lookup(st.stats, st.current_author, NewAuthorStats),
                                        counts.ins, counts.dels, filepath,
                                        st.current_commit, st.current_date)),
                     !.order =
                       IF st.current_author \in DOMAIN st.stats THEN st.order
                       ELSE Append(st.order, st.current_author)]
     ELSE st

\* Mutant: the commit is added to the author's set before the counts are
\* parsed, so that a ValueError leaves it there.
NumstatLine_CommitBeforeInt(st, line, excludeDocs) ==
  LET parts == split(line, "\t")
  IN IF Len(parts) = 3 /\ Truthy(st.current_author)
     THEN LET insertions == parts[1]
              deletions  == parts[2]
              filepath   == parts[3]
              counts     == ParseCounts(insertions, deletions)
              entry      == Lookup(st.stats, st.current_author, NewAuthorStats)
              touched    ==
                [st EXCEPT
                   !.stats = Store(st.stats, st.current_author,
                               [entry EXCEPT !.commits = @ \cup {st.current_commit}]),
                   !.order = IF st.current_author \in DOMAIN st.stats THEN st.order
                             ELSE Append(st.order, st.current_author)]
          IN IF insertions = <<"-">> \/ deletions = <<"-">> THEN st
             ELSE IF ExcludeFile(filepath, excludeDocs) THEN st
             ELSE IF ~counts.ok THEN touched
             ELSE [st EXCEPT
                     !.stats =
                       Store(st.stats, st.current_author,
                             Accumulate(Lookup(st.stats, st.current_author, NewAuthorStats),
                                        counts.ins, counts.dels, filepath,
                                        st.current_commit, st.current_date)),
                     !.order =
                       IF st.current_author \in DOMAIN st.stats THEN st.order
                       ELSE Append(st.order, st.current_author)]
     ELSE st

\* Mutant: the insertions are parsed and added before the deletions are
\* parsed, so that a ValueError of the second int() leaves half an update.
NumstatLine_InsertsBeforeDeletes(st, line, excludeDocs) ==
  LET parts == split(line, "\t")
  IN IF Len(parts) = 3 /\ Truthy(st.current_author)
     THEN LET insertions == parts[1]
              deletions  == parts[2]
              filepath   == parts[3]
              counts     == ParseCounts(insertions, deletions)
              entry      == Lookup(st.stats, st.current_author, NewAuthorStats)
              half       ==
                [st EXCEPT
                   !.stats = Store(st.stats, st.current_author,
                               [entry EXCEPT !.commits = @ \cup {st.current_commit},
                                             !.inserts = @ + PyInt(insertions).val]),
                   !.order = IF st.current_author \in DOMAIN st.stats THEN st.order
                             ELSE Append(st.order, st.current_author)]
          IN IF insertions = <<"-">> \/ deletions = <<"-">> THEN st
             ELSE IF ExcludeFile(filepath, excludeDocs) THEN st
             ELSE IF PyInt(insertions).ok /\ ~PyInt(deletions).ok THEN half
             ELSE IF ~counts.ok THEN st
             ELSE [st EXCEPT
                     !.stats =
                       Store(st.stats, st.current_author,
                             Accumulate(Lookup(st.stats, st.current_author, NewAuthorStats),
                                        counts.ins, counts.dels, filepath,
                                        st.current_commit, st.current_date)),
                     !.order =
                       IF st.current_author \in DOMAIN st.stats THEN st.order
                       ELSE Append(st.order, st.current_author)]
     ELSE st

\* Mutant: a file line is counted without an author being set.
NumstatLine_NoAuthorTest(st, line, excludeDocs) ==
  LET parts == split(line, "\t")
  IN IF Len(parts) = 3
     THEN LET insertions == parts[1]
              deletions  == parts[2]
              filepath   == parts[3]
              counts     == ParseCounts(insertions, deletions)
          IN IF insertions = <<"-">> \/ deletions = <<"-">> THEN st
             ELSE IF ExcludeFile(filepath, excludeDocs) THEN st
             ELSE IF ~counts.ok THEN st
             ELSE [st EXCEPT
                     !.stats =
                       Store(st.stats, st.current_author,
                             Accumulate(Lookup(st.stats, st.current_author, NewAuthorStats),
                                        counts.ins, counts.dels, filepath,
                                        st.current_commit, st.current_date)),
                     !.order =
                       IF st.current_author \in DOMAIN st.stats THEN st.order
                       ELSE Append(st.order, st.current_author)]
     ELSE st

\* The branch for any other non-empty line.
NumstatLine(st, line, excludeDocs) ==
  LET parts == split(line, "\t")
  IN IF Len(parts) = 3 /\ Truthy(st.current_author)
     THEN LET insertions == parts[1]
              deletions  == parts[2]
              filepath   == parts[3]
              counts     == ParseCounts(insertions, deletions)
          IN IF insertions = <<"-">> \/ deletions = <<"-">> THEN st
             ELSE IF ExcludeFile(filepath, excludeDocs) THEN st
             ELSE IF ~counts.ok THEN st
             ELSE [st EXCEPT
                     !.stats =
                       Store(st.stats, st.current_author,
                             Accumulate(Lookup(st.stats, st.current_author, NewAuthorStats),
                                        counts.ins, counts.dels, filepath,
                                        st.current_commit, st.current_date)),
                     !.order =
                       IF st.current_author \in DOMAIN st.stats THEN st.order
                       ELSE Append(st.order, st.current_author)]
     ELSE st

IsMarker(line) == startswith(line, <<"C","O","M","M","I","T","|">>)

\* One iteration of the loop over the lines.
ParseLine(st, line, excludeDocs) ==
  IF line = <<>> THEN st
  ELSE IF IsMarker(line) THEN MarkerLine(st, line)
  ELSE NumstatLine(st, line, excludeDocs)

\* log_output.strip().split("\n")
LinesOf(log_output) == split(strip(log_output), "\n")

\* parse_git_log as a function of its argument and the global it reads:
\* the returned dict, as its entries (stats) and the order of its keys.
parse_git_log(log_output, excludeDocs) ==
  LET ls == LinesOf(log_output)
      RECURSIVE run(_, _)
      run(k, st) == IF k > Len(ls) THEN st ELSE run(k + 1, ParseLine(st, ls[k], excludeDocs))
      final == run(1, ParserStart)
  IN [stats |-> final.stats, order |-> final.order]

\* ------------------------------------------------------------ aggregator
\* The row analyze_repos appends for one author of one repository.
ContributionRow(author, repo_name, data) ==
  [author |-> author, repo |-> repo_name,
   commits |-> Cardinality(data.commits),
   inserts |-> data.inserts, deletes |-> data.deletes,
   net |-> data.inserts - data.deletes]

\* Mutant: a week's entry is assigned, not added to.
FoldWeekly_Overwrite(weekly_stats, author, weekly) ==
  IF DOMAIN weekly = {} THEN weekly_stats
  ELSE LET old == Lookup(weekly_stats, author, EmptyMap)
       IN Store(weekly_stats, author,
            [week \in DOMAIN old \cup DOMAIN weekly |->
               IF week \in DOMAIN weekly THEN weekly[week] ELSE old[week]])

\* for week, week_data in data["weekly"].items(): add the counts, update
\* the commit set.  weekly_stats[author] comes to exist with the first week.
FoldWeekly(weekly_stats, author, weekly) ==
  IF DOMAIN weekly = {} THEN weekly_stats
  ELSE LET old == Lookup(weekly_stats, author, EmptyMap)
       IN Store(weekly_stats, author,
            [week \in DOMAIN old \cup DOMAIN weekly |->
               LET w == Lookup(old, week, NewWeek)
                   x == Lookup(weekly, week, NewWeek)
               IN [inserts |-> w.inserts + x.inserts,
                   deletes |-> w.deletes + x.deletes,
                   commits |-> w.commits \cup x.commits]])

\* The loops over data["by_ext"] and data["by_category"].
FoldCounts(global_stats, author, buckets) ==
  IF DOMAIN buckets = {} THEN global_stats
  ELSE LET old == Lookup(global_stats, author, EmptyMap)
       IN Store(global_stats, author,
            [key \in DOMAIN old \cup DOMAIN buckets |->
               LET b == Lookup(old, key, NewBucket)
                   x == Lookup(buckets, key, NewBucket)
               IN [inserts |-> b.inserts + x.inserts,
                   deletes |-> b.deletes + x.deletes]])

\* The results analyze_repos builds, before the first repository.
AnalysisStart ==
  [all_data |-> <<>>, weekly_stats |-> EmptyMap, ext_stats |-> EmptyMap,
   category_stats |-> EmptyMap]

\* Mutant: the maps are folded whatever the activity, the row is not.
MergeAuthor_FoldAlways(g, repo_name, author, data) ==
  [all_data       |-> IF data.inserts > 0 \/ data.deletes > 0
                      THEN Append(g.all_data, ContributionRow(author, repo_name, data))
                      ELSE g.all_data,
   weekly_stats   |-> FoldWeekly(g.weekly_stats, author, data.weekly),
   ext_stats      |-> FoldCounts(g.ext_stats, author, data.by_ext),
   category_stats |-> FoldCounts(g.category_stats, author, data.by_category)]

\* The body of `for author, data in stats.items()` for one author.
MergeAuthor(g, repo_name, author, data) ==
  IF data.inserts > 0 \/ data.deletes > 0
  THEN [all_data       |-> Append(g.all_data, ContributionRow(author, repo_name, data)),
        weekly_stats   |-> FoldWeekly(g.weekly_stats, author, data.weekly),
        ext_stats      |-> FoldCounts(g.ext_stats, author, data.by_ext),
        category_stats |-> FoldCounts(g.category_stats, author, data.by_category)]
  ELSE g

\* The loop over stats.items(): the authors in the order the parse met them.
MergeRepository(g, repo_name, parsed) ==
  LET RECURSIVE run(_, _)
      run(k, acc) ==
        IF k > Len(parsed.order) THEN acc
        ELSE run(k + 1, MergeAuthor(acc, repo_name, parsed.order[k],
                                    parsed.stats[parsed.order[k]]))
  IN run(1, g)

\* One iteration of analyze_repos' loop: a repository whose get_git_log
\* result is empty is passed over.
AnalyzeOne(g, repo, excludeDocs) ==
  IF repo.log = <<>> THEN g
  ELSE MergeRepository(g, repo.name, parse_git_log(repo.log, excludeDocs))

\* ---------------------------------------------------------------- inputs
\* Every sequence of at most n elements of S.
RECURSIVE SeqsUpTo(_, _)
SeqsUpTo(S, n) ==
  IF n = 0 THEN {<<>>}
  ELSE LET shorter == SeqsUpTo(S, n - 1)
       IN shorter \cup {Append(s, x) : s \in shorter, x \in S}

\* The text of a log: each line followed by a newline, as git writes it.
RECURSIVE JoinLines(_)
JoinLines(ls) ==
  IF ls = <<>> THEN <<>> ELSE Head(ls) \o <<"\n">> \o JoinLines(Tail(ls))

Logs == {JoinLines(ls) : ls \in SeqsUpTo(PoolLines, MaxLines)}

BlankLine == <<>>

NumstatNegativeOnly == <<"-","5","\t","0","\t","x",".","p","y">>

NumstatNotes == <<"1","\t","1","\t","d","o","c","s","/","n","o","t","e","s",".","T","X","T">>

\* The repositories analyze_repos is run on: a name and the text
\* get_git_log returns for it (empty when git fails or finds nothing).
PoolRepos ==
  { [name |-> "web", log |-> JoinLines(<<MarkerAlice, NumstatTs, NumstatMakefile>>)],
    [name |-> "api", log |-> JoinLines(<<MarkerBob, NumstatTs, MarkerAlice, NumstatTs>>)],
    [name |-> "ops", log |-> JoinLines(<<MarkerNoDate, NumstatNegative, MarkerBob, NumstatReadme>>)],
    [name |-> "bot", log |-> JoinLines(<<MarkerBot, NumstatTs>>)],
    [name |-> "new", log |-> <<>>],
    [name |-> "gap", log |-> JoinLines(<<BlankLine, BlankLine>>)],
    [name |-> "raw", log |-> JoinLines(<<NumstatTs, MarkerShort, NumstatMakefile>>)],
    [name |-> "bin", log |-> JoinLines(<<MarkerAlice, NumstatBinary, NumstatLockfile>>)],
    [name |-> "neg", log |-> JoinLines(<<MarkerBob, NumstatNegativeOnly>>)],
    [name |-> "doc", log |-> JoinLines(<<MarkerAlice, NumstatReadme, NumstatNotes, NumstatTs>>)] }

RepoLists == SeqsUpTo(PoolRepos, MaxRepos)

\* ----------------------------------------------------------------- state
VARIABLES
  EXCLUDE_DOCS,     \* the module global set by --no-docs
  log_output,       \* parse_git_log: its argument
  lines,            \* parse_git_log: the list the loop runs over
  idx,              \* parse_git_log: the index in `lines` of the next line
  pc,               \* parse_git_log: "start", "loop" or "done"
  stats,            \* parse_git_log: the dict being built
  order,            \* parse_git_log: the insertion order of stats' keys
  current_author,
  current_commit,
  current_date,
  repos,            \* analyze_repos: its argument
  ri,               \* analyze_repos: the index in `repos` of the next repository
  apc,              \* analyze_repos: "loop" or "done"
  all_data,
  weekly_stats,
  ext_stats,
  category_stats,
  path_arg,         \* the classifier: the filepath argument of its calls
  returned,         \* the classifier: the function called and its return value
  tasks             \* parallel scans: per repository, a parse_git_log call

parserVars ==
  <<log_output, lines, idx, pc, stats, order, current_author, current_commit,
    current_date>>

analysisVars ==
  <<repos, ri, apc, all_data, weekly_stats, ext_stats, category_stats>>

classifierVars == <<path_arg, returned>>

workerVars == <<tasks>>

vars == <<EXCLUDE_DOCS, parserVars, analysisVars, classifierVars, workerVars>>

\* The parser's locals as one record, and back.
ParserState ==
  [stats |-> stats, order |-> order, current_author |-> current_author,
   current_commit |-> current_commit, current_date |-> current_date]

SetParserState(st) ==
  /\ stats' = st.stats
  /\ order' = st.order
  /\ current_author' = st.current_author
  /\ current_commit' = st.current_commit
  /\ current_date' = st.current_date

AnalysisState ==
  [all_data |-> all_data, weekly_stats |-> weekly_stats,
   ext_stats |-> ext_stats, category_stats |-> category_stats]

SetAnalysisState(g) ==
  /\ all_data' = g.all_data
  /\ weekly_stats' = g.weekly_stats
  /\ ext_stats' = g.ext_stats
  /\ category_stats' = g.category_stats

\* ------------------------------------------------- parse_git_log, stepwise
ParserIdle ==
  /\ log_output = <<>>
  /\ lines = <<>>
  /\ idx = 1
  /\ pc = "done"
  /\ stats = EmptyMap
  /\ order = <<>>
  /\ current_author = None
  /\ current_commit = None
  /\ current_date = <<>>

AnalysisIdle ==
  /\ repos = <<>>
  /\ ri = 1
  /\ apc = "done"
  /\ all_data = <<>>
  /\ weekly_stats = EmptyMap
  /\ ext_stats = EmptyMap
  /\ category_stats = EmptyMap

\* No classifier function has been called.
NoCall == [fn |-> "none", value |-> None]

ClassifierIdle ==
  /\ path_arg = None
  /\ returned = NoCall

\* No parallel scan is under way.
WorkersIdle == tasks = <<>>

\* parse_git_log is called on some log, EXCLUDE_DOCS being as line 98 sets it.
Init ==
  /\ EXCLUDE_DOCS = FALSE
  /\ log_output \in Logs
  /\ lines = <<>>
  /\ idx = 1
  /\ pc = "start"
  /\ stats = EmptyMap
  /\ order = <<>>
  /\ current_author = None
  /\ current_commit = None
  /\ current_date = <<>>
  /\ AnalysisIdle
  /\ ClassifierIdle
  /\ WorkersIdle

\* Lines 382-392: the locals are set and the text is stripped and split.
Begin ==
  /\ pc = "start"
  /\ lines' = LinesOf(log_output)
  /\ idx' = 1
  /\ pc' = "loop"
  /\ SetParserState(ParserStart)
  /\ UNCHANGED <<EXCLUDE_DOCS, log_output, analysisVars, classifierVars, workerVars>>

\* Lines 393-394: an empty line.
SkipEmptyLine ==
  /\ pc = "loop"
  /\ idx <= Len(lines)
  /\ lines[idx] = <<>>
  /\ idx' = idx + 1
  /\ UNCHANGED <<EXCLUDE_DOCS, log_output, lines, pc, stats, order, current_author,
                 current_commit, current_date, analysisVars, classifierVars, workerVars>>

\* Lines 395-408: a line that starts with "COMMIT|".
ReadMarker ==
  /\ pc = "loop"
  /\ idx <= Len(lines)
  /\ lines[idx] # <<>>
  /\ IsMarker(lines[idx])
  /\ SetParserState(MarkerLine(ParserState, lines[idx]))
  /\ idx' = idx + 1
  /\ UNCHANGED <<EXCLUDE_DOCS, log_output, lines, pc, analysisVars, classifierVars, workerVars>>

\* Lines 409-439: any other line.
ReadNumstat ==
  /\ pc = "loop"
  /\ idx <= Len(lines)
  /\ lines[idx] # <<>>
  /\ ~IsMarker(lines[idx])
  /\ SetParserState(NumstatLine(ParserState, lines[idx], EXCLUDE_DOCS))
  /\ idx' = idx + 1
  /\ UNCHANGED <<EXCLUDE_DOCS, log_output, lines, pc, analysisVars, classifierVars, workerVars>>

\* Line 440: the loop is over and stats is returned.
Return ==
  /\ pc = "loop"
  /\ idx > Len(lines)
  /\ pc' = "done"
  /\ UNCHANGED <<EXCLUDE_DOCS, log_output, lines, idx, stats, order, current_author,
                 current_commit, current_date, analysisVars, classifierVars, workerVars>>

Next == Begin \/ SkipEmptyLine \/ ReadMarker \/ ReadNumstat \/ Return

Spec == Init /\ [][Next]_vars

\* ------------------------------------------------ analyze_repos, stepwise
\* analyze_repos is called on some list of repositories, main() having set
\* EXCLUDE_DOCS from --no-docs or left it.
InitAnalyze ==
  /\ EXCLUDE_DOCS \in BOOLEAN
  /\ ParserIdle
  /\ repos \in RepoLists
  /\ ri = 1
  /\ apc = "loop"
  /\ all_data = <<>>
  /\ weekly_stats = EmptyMap
  /\ ext_stats = EmptyMap
  /\ category_stats = EmptyMap
  /\ ClassifierIdle
  /\ WorkersIdle

\* Lines 459-461: get_git_log returned nothing for this repository.
SkipRepository ==
  /\ apc = "loop"
  /\ ri <= Len(repos)
  /\ repos[ri].log = <<>>
  /\ ri' = ri + 1
  /\ UNCHANGED <<EXCLUDE_DOCS, classifierVars, workerVars, parserVars, repos, apc, all_data, weekly_stats,
                 ext_stats, category_stats>>

\* Lines 463-485: the log is parsed and folded into the results.
AnalyzeRepository ==
  /\ apc = "loop"
  /\ ri <= Len(repos)
  /\ repos[ri].log # <<>>
  /\ SetAnalysisState(AnalyzeOne(AnalysisState, repos[ri], EXCLUDE_DOCS))
  /\ ri' = ri + 1
  /\ UNCHANGED <<EXCLUDE_DOCS, classifierVars, workerVars, parserVars, repos, apc>>

\* Lines 487-488: the results are returned.
AnalyzeReturn ==
  /\ apc = "loop"
  /\ ri > Len(repos)
  /\ apc' = "done"
  /\ UNCHANGED <<EXCLUDE_DOCS, classifierVars, workerVars, parserVars, repos, ri, all_data, weekly_stats,
                 ext_stats, category_stats>>

NextAnalyze == SkipRepository \/ AnalyzeRepository \/ AnalyzeReturn

SpecAnalyze == InitAnalyze /\ [][NextAnalyze]_vars

\* ------------------------------------------------------------ properties
\* What the claims speak of, read off the lines of the log independently of
\* the parser's own variables.

\* The sums of one field over the buckets of a map.
RECURSIVE SumInserts(_)
SumInserts(m) ==
  IF DOMAIN m = {} THEN 0
  ELSE LET k == CHOOSE x \in DOMAIN m : TRUE
       IN m[k].inserts + SumInserts([j \in DOMAIN m \ {k} |-> m[j]])

RECURSIVE SumDeletes(_)
SumDeletes(m) ==
  IF DOMAIN m = {} THEN 0
  ELSE LET k == CHOOSE x \in DOMAIN m : TRUE
       IN m[k].deletes + SumDeletes([j \in DOMAIN m \ {k} |-> m[j]])

\* A marker line with at least four "|" fields, and its fields.
IsValidMarker(line) == IsMarker(line) /\ Len(split(line, "|")) >= 4

HashOf(marker) == split(marker, "|")[2]

AuthorOf(marker) == strip(split(marker, "|")[3])

DateOf(marker) == strptime(split(marker, "|")[4])

\* The index of the last valid marker before line i of ls; 0 when there is none.
GoverningMarker(ls, i) ==
  LET before == {j \in 1..(i - 1) : IsValidMarker(ls[j])}
  IN IF before = {} THEN 0 ELSE CHOOSE j \in before : \A k \in before : k <= j

\* A numstat line that no skip rule of its own rejects: three tab fields,
\* no "-" count, two counts int() accepts, a path should_exclude_file passes.
Countable(line, excludeDocs) ==
  /\ line # <<>>
  /\ ~IsMarker(line)
  /\ LET f == split(line, "\t")
     IN /\ Len(f) = 3
        /\ f[1] # <<"-">> /\ f[2] # <<"-">>
        /\ PyInt(f[1]).ok /\ PyInt(f[2]).ok
        /\ ~ExcludeFile(f[3], excludeDocs)

\* Line i of ls is counted, and for this author under this hash.
CountedFor(ls, i, excludeDocs, author, hash) ==
  /\ Countable(ls[i], excludeDocs)
  /\ GoverningMarker(ls, i) # 0
  /\ LET marker == ls[GoverningMarker(ls, i)]
     IN /\ AuthorOf(marker) = author
        /\ HashOf(marker) = hash
        /\ author # <<>>
        /\ ~should_exclude_author(author)

\* The lines of ls counted for the author.
LinesCountedFor(ls, excludeDocs, author) ==
  {i \in 1..Len(ls) :
     /\ GoverningMarker(ls, i) # 0
     /\ CountedFor(ls, i, excludeDocs, author, HashOf(ls[GoverningMarker(ls, i)]))}

\* C1: after parse_git_log, for every author the insertions of the
\* extension buckets sum to the author's total insertions, and the
\* deletions likewise, also when counted files have no extension.
C1_ExtensionSumEqualsTotal ==
  pc = "done" =>
    \A a \in DOMAIN stats :
      /\ SumInserts(stats[a].by_ext) = stats[a].inserts
      /\ SumDeletes(stats[a].by_ext) = stats[a].deletes

\* C2: after parse_git_log, for every author the insertions of the category
\* buckets sum to the author's total insertions and the deletions of the
\* category buckets to the total deletions.
C2_CategorySumEqualsTotal ==
  pc = "done" =>
    \A a \in DOMAIN stats :
      /\ SumInserts(stats[a].by_category) = stats[a].inserts
      /\ SumDeletes(stats[a].by_category) = stats[a].deletes

\* An author with counted lines in two categories, "other" among them.
C2_Witness ==
  /\ pc = "done"
  /\ \E a \in DOMAIN stats :
       /\ Cardinality(DOMAIN stats[a].by_category) >= 2
       /\ "other" \in DOMAIN stats[a].by_category
       /\ stats[a].inserts > 0

\* C3: after parse_git_log, for every author the insertions (deletions) of
\* the weekly buckets sum to at most the author's total, and to exactly the
\* total when every commit that contributed a counted line of the author
\* has a parseable date.
C3_WeeklySumWithinTotal ==
  pc = "done" =>
    \A a \in DOMAIN stats :
      LET allDated ==
            \A i \in LinesCountedFor(lines, EXCLUDE_DOCS, a) :
              DateOf(lines[GoverningMarker(lines, i)]) # <<>>
      IN /\ SumInserts(stats[a].weekly) <= stats[a].inserts
         /\ SumDeletes(stats[a].weekly) <= stats[a].deletes
         /\ allDated => /\ SumInserts(stats[a].weekly) = stats[a].inserts
                        /\ SumDeletes(stats[a].weekly) = stats[a].deletes

\* The lines of a log text as written, before any strip: the text is empty
\* or ends with a newline.
RawLines(text) ==
  LET f == split(text, "\n") IN SubSeq(f, 1, Len(f) - 1)

\* A commit group is a line that starts with "COMMIT|" and the lines up to
\* the next such line; the lines before the first group stay first.
MarkerIndexes(ls) == {i \in 1..Len(ls) : IsMarker(ls[i])}

NumGroups(ls) == Cardinality(MarkerIndexes(ls))

GroupStart(ls, g) ==
  CHOOSE i \in MarkerIndexes(ls) :
    Cardinality({j \in MarkerIndexes(ls) : j <= i}) = g

GroupEnd(ls, g) ==
  IF g = NumGroups(ls) THEN Len(ls) ELSE GroupStart(ls, g + 1) - 1

Orderings(n) ==
  {p \in [1..n -> 1..n] : \A i, j \in 1..n : p[i] = p[j] => i = j}

\* The log with its commit groups in the order p.
Permuted(ls, p) ==
  LET n == NumGroups(ls)
      RECURSIVE from(_)
      from(k) ==
        IF k > n THEN <<>>
        ELSE SubSeq(ls, GroupStart(ls, p[k]), GroupEnd(ls, p[k])) \o from(k + 1)
  IN IF n = 0 THEN ls
     ELSE SubSeq(ls, 1, GroupStart(ls, 1) - 1) \o from(1)

\* Every reordering of the commit groups of ls parses to `result`.
GroupOrderIrrelevant(ls, excludeDocs, result) ==
  \A p \in Orderings(NumGroups(ls)) :
    parse_git_log(JoinLines(Permuted(ls, p)), excludeDocs).stats = result

\* Every marker line has its four fields, and no line starts or ends with
\* whitespace that the strip of the whole text could take away.
WellFormedMarkers(ls) ==
  \A i \in MarkerIndexes(ls) : IsValidMarker(ls[i])

NoEdgeWhitespace(ls) ==
  \A i \in 1..Len(ls) :
    ls[i] # <<>> => ls[i][1] \notin Whitespace /\ ls[i][Len(ls[i])] \notin Whitespace

BagOfRows(rows) ==
  [r \in {rows[i] : i \in 1..Len(rows)} |->
     Cardinality({i \in 1..Len(rows) : rows[i] = r})]

\* analyze_repos on a list of repositories, as a function.
AnalyzeAll(rs, excludeDocs) ==
  LET RECURSIVE run(_, _)
      run(k, g) == IF k > Len(rs) THEN g ELSE run(k + 1, AnalyzeOne(g, rs[k], excludeDocs))
  IN run(1, AnalysisStart)

\* C5: analyze_repos over any permutation of the same repositories gives
\* the same multiset of rows and the same global weekly, extension and
\* category maps.
C5_RepositoryOrderIrrelevant ==
  apc = "done" =>
    \A p \in Orderings(Len(repos)) :
      LET g == AnalyzeAll([k \in 1..Len(repos) |-> repos[p[k]]], EXCLUDE_DOCS)
      IN /\ BagOfRows(g.all_data) = BagOfRows(all_data)
         /\ g.weekly_stats = weekly_stats
         /\ g.ext_stats = ext_stats
         /\ g.category_stats = category_stats

\* Two different repositories have each given a row for the same author.
C5_Witness ==
  /\ apc = "done"
  /\ \E i, j \in 1..Len(all_data) :
       /\ all_data[i].author = all_data[j].author
       /\ all_data[i].repo # all_data[j].repo
       /\ all_data[i].inserts # all_data[j].inserts

\* The line about to be read, when there is one.
Reading == pc = "loop" /\ idx <= Len(lines)

\* Line i follows a valid marker that names an excluded author, with no
\* valid marker in between.
UnderExcludedAuthor(ls, i) ==
  /\ GoverningMarker(ls, i) # 0
  /\ should_exclude_author(AuthorOf(ls[GoverningMarker(ls, i)]))

\* C6: a line between the marker of an excluded author and the next valid
\* marker changes nobody's totals, commit set or buckets, and an excluded
\* author is never a key of the result.
C6_ExcludedAuthorSuppressed ==
  /\ [][(Reading /\ UnderExcludedAuthor(lines, idx))
          => (stats' = stats /\ order' = order)]_vars
  /\ [](\A a \in DOMAIN stats : ~should_exclude_author(a))

\* A countable line has just been read under an excluded author's marker
\* that itself follows the marker of an author who is not excluded.
C6_Witness ==
  /\ pc = "loop"
  /\ idx > 1
  /\ UnderExcludedAuthor(lines, idx - 1)
  /\ Countable(lines[idx - 1], EXCLUDE_DOCS)
  /\ \E j \in 1..(GoverningMarker(lines, idx - 1) - 1) :
       /\ IsValidMarker(lines[j])
       /\ Truthy(AuthorOf(lines[j]))
       /\ ~should_exclude_author(AuthorOf(lines[j]))

\* A count field int() reads as a natural number.
IsNaturalCount(text) == PyInt(text).ok /\ PyInt(text).val >= 0

\* C7: from one processed line to the next no author's total insertions or
\* deletions decrease, and a numstat line with a count field that is not a
\* non-negative integer is skipped.
C7_TotalsNeverDecrease ==
  [][Reading =>
       /\ \A a \in DOMAIN stats' :
            /\ stats'[a].inserts >= Lookup(stats, a, NewAuthorStats).inserts
            /\ stats'[a].deletes >= Lookup(stats, a, NewAuthorStats).deletes
       /\ LET f == split(lines[idx], "\t")
          IN (/\ ~IsMarker(lines[idx])
              /\ Len(f) = 3
              /\ ~(IsNaturalCount(f[1]) /\ IsNaturalCount(f[2])))
               => stats' = stats]_vars

\* A numstat line with "-" for a count.
IsBinaryLine(line) ==
  /\ ~IsMarker(line)
  /\ LET f == split(line, "\t")
     IN Len(f) = 3 /\ (f[1] = <<"-">> \/ f[2] = <<"-">>)

\* C8: a numstat line with "-" for either count leaves every author's
\* totals, commit set and buckets as they were, also when the other count
\* is a number and the path is not excluded.
C8_BinaryLineChangesNothing ==
  [][(Reading /\ IsBinaryLine(lines[idx]))
       => (stats' = stats /\ order' = order)]_vars

\* A line with one "-" count, one number and a path that is not excluded
\* has just been read under an author who is counted.
C8_Witness ==
  /\ pc = "loop"
  /\ idx > 1
  /\ IsBinaryLine(lines[idx - 1])
  /\ LET f == split(lines[idx - 1], "\t")
     IN /\ PyInt(f[1]).ok \/ PyInt(f[2]).ok
        /\ ~ExcludeFile(f[3], EXCLUDE_DOCS)
  /\ Truthy(current_author)

\* A numstat line whose path should_exclude_file rejects.
IsExcludedFileLine(line, excludeDocs) ==
  /\ ~IsMarker(line)
  /\ LET f == split(line, "\t")
     IN Len(f) = 3 /\ ExcludeFile(f[3], excludeDocs)

\* C9: a numstat line with an excluded path changes no total, bucket or
\* commit set, and a hash is in an author's commit set exactly when some
\* line under that commit of the author is counted.
C9_ExcludedFileLineChangesNothing ==
  /\ [][(Reading /\ IsExcludedFileLine(lines[idx], EXCLUDE_DOCS))
          => (stats' = stats /\ order' = order)]_vars
  /\ [](pc = "done" =>
          /\ \A a \in DOMAIN stats : \A h \in stats[a].commits :
               \E i \in 1..Len(lines) : CountedFor(lines, i, EXCLUDE_DOCS, a, h)
          /\ \A i \in 1..Len(lines) :
               LET g == GoverningMarker(lines, i)
               IN (g # 0 /\ CountedFor(lines, i, EXCLUDE_DOCS, AuthorOf(lines[g]), HashOf(lines[g])))
                    => /\ AuthorOf(lines[g]) \in DOMAIN stats
                       /\ HashOf(lines[g]) \in stats[AuthorOf(lines[g])].commits)

\* One commit with a line of an excluded path and a counted line.
C9_Witness ==
  /\ pc = "done"
  /\ \E i, j \in 1..Len(lines) :
       /\ GoverningMarker(lines, i) # 0
       /\ GoverningMarker(lines, i) = GoverningMarker(lines, j)
       /\ IsExcludedFileLine(lines[i], EXCLUDE_DOCS)
       /\ LET g == GoverningMarker(lines, j)
          IN /\ CountedFor(lines, j, EXCLUDE_DOCS, AuthorOf(lines[g]), HashOf(lines[g]))
             /\ stats[AuthorOf(lines[g])].commits = {HashOf(lines[g])}

\* The hashes under which a line among the first n of ls is counted for the
\* author.
HashesCountedFor(ls, n, excludeDocs, author) ==
  {HashOf(ls[GoverningMarker(ls, i)]) :
     i \in {j \in LinesCountedFor(ls, excludeDocs, author) : j <= n}}

\* C10: an author's commit count is the number of distinct hashes under
\* which a line of the author was counted, however many lines each has.
C10_CommitCountIsDistinctHashes ==
  pc # "start" =>
    /\ \A a \in DOMAIN stats :
         Cardinality(stats[a].commits)
           = Cardinality(HashesCountedFor(lines, idx - 1, EXCLUDE_DOCS, a))
    /\ \A i \in 1..(idx - 1) :
         LET g == GoverningMarker(lines, i)
         IN (g # 0 /\ CountedFor(lines, i, EXCLUDE_DOCS, AuthorOf(lines[g]), HashOf(lines[g])))
              => AuthorOf(lines[g]) \in DOMAIN stats

\* One commit of two counted lines, counted once.
C10_Witness ==
  /\ pc = "done"
  /\ \E a \in DOMAIN stats :
       /\ Cardinality(LinesCountedFor(lines, EXCLUDE_DOCS, a)) >= 2
       /\ Cardinality(stats[a].commits) = 1

\* ------------------------------------------------- logs of whole commits
\* Commits as git log --numstat writes them: the marker line and the
\* numstat lines of the commit, some with the blank line git puts between.
CommitBobWeek1   == <<"C","O","M","M","I","T","|","b","1","|","B","o","b","|","2","0","2","5","-","0","1","-","0","6","\n","3","\t","0","\t","x",".","p","y">>
CommitBobWeek2   == <<"C","O","M","M","I","T","|","b","2","|","B","o","b","|","2","0","2","5","-","0","1","-","1","3","\n","\n","7","\t","1","\t","y",".","p","y">>
CommitBobSunday  == <<"C","O","M","M","I","T","|","b","3","|","B","o","b","|","2","0","2","5","-","0","1","-","1","2","\n","2","\t","2","\t","x",".","p","y","\n","1","\t","0","\t","M","a","k","e","f","i","l","e">>
CommitBobUndated == <<"C","O","M","M","I","T","|","b","4","|","B","o","b","|","u","n","k","n","o","w","n","\n","4","\t","4","\t","x",".","p","y">>
CommitBobAgain   == <<"C","O","M","M","I","T","|","b","1","|","B","o","b","|","2","0","2","5","-","0","1","-","0","6","\n","1","\t","1","\t","y",".","p","y">>
CommitBobPadded  == <<"C","O","M","M","I","T","|","b","5","|"," ","B","o","b"," ","|","2","0","2","5","-","0","1","-","1","4","\n","6","\t","0","\t","x",".","p","y">>
CommitBobEmpty   == <<"C","O","M","M","I","T","|","b","6","|","B","o","b","|","2","0","2","5","-","0","1","-","2","0">>
CommitAlice      == <<"C","O","M","M","I","T","|","a","1","|","A","l","i","c","e","|","2","0","2","5","-","0","1","-","0","6","\n","5","\t","2","\t","s","r","c","/","a","p","p",".","t","s">>
CommitCarolQuiet == <<"C","O","M","M","I","T","|","c","9","|","C","a","r","o","l","|","2","0","2","5","-","0","1","-","0","7","\n","4","\t","-","\t","x",".","p","y","\n","7","\t","1","\t","p","a","c","k","a","g","e","-","l","o","c","k",".","j","s","o","n","\n","x","\t","2","\t","s","r","c","/","a","p","p",".","t","s">>
CommitBot        == <<"C","O","M","M","I","T","|","c","3","|","d","e","p","e","n","d","a","b","o","t","[","b","o","t","]","|","2","0","2","5","-","0","1","-","0","6","\n","5","\t","2","\t","s","r","c","/","a","p","p",".","t","s">>
CommitNobody     == <<"C","O","M","M","I","T","|","n","0","|"," "," ","|","2","0","2","5","-","0","1","-","0","6","\n","3","\t","1","\t","x",".","p","y">>

PoolCommits ==
  { CommitBobWeek1, CommitBobWeek2, CommitBobSunday, CommitBobUndated,
    CommitBobAgain, CommitBobPadded, CommitBobEmpty, CommitCarolQuiet,
    CommitAlice, CommitBot, CommitNobody }

CommitLogs == {JoinLines(cs) : cs \in SeqsUpTo(PoolCommits, MaxCommits)}

\* parse_git_log is called on a log of whole commits.
InitCommits ==
  /\ EXCLUDE_DOCS = FALSE
  /\ log_output \in CommitLogs
  /\ lines = <<>>
  /\ idx = 1
  /\ pc = "start"
  /\ stats = EmptyMap
  /\ order = <<>>
  /\ current_author = None
  /\ current_commit = None
  /\ current_date = <<>>
  /\ AnalysisIdle
  /\ ClassifierIdle
  /\ WorkersIdle

SpecCommits == InitCommits /\ [][Next]_vars

\* The sum of count field k (1: insertions, 2: deletions) over the lines of
\* ls with an index in S.
RECURSIVE SumCounts(_, _, _)
SumCounts(ls, S, k) ==
  IF S = {} THEN 0
  ELSE LET i == CHOOSE x \in S : TRUE
       IN PyInt(split(ls[i], "\t")[k]).val + SumCounts(ls, S \ {i}, k)

\* Day 1 of the calendar (0001-01-01) is a Monday: the Mondays are the days
\* whose ordinal is 1 modulo 7.
IsMonday(day) == day % 7 = 1

MondayOnOrBefore(day) == CHOOSE w \in (day - 6)..day : IsMonday(w)

\* The lines counted for the author under a commit whose date parses, and
\* the week of such a line.
DatedLinesCountedFor(ls, excludeDocs, author) ==
  {i \in LinesCountedFor(ls, excludeDocs, author) :
     DateOf(ls[GoverningMarker(ls, i)]) # <<>>}

WeekOfLine(ls, i) == MondayOnOrBefore(DateOf(ls[GoverningMarker(ls, i)])[1])

\* C11: every key of an author's weekly map is a Monday, the keys are the
\* Mondays on or before the dates of the author's counted lines, and the
\* bucket of a Monday holds the hashes and the counts of exactly the
\* counted lines dated in the seven days from it.
C11_WeeklyBucketsAreMondayWeeks ==
  pc = "done" =>
    \A a \in DOMAIN stats :
      LET dated == DatedLinesCountedFor(lines, EXCLUDE_DOCS, a)
          weekly == stats[a].weekly
      IN /\ DOMAIN weekly = {WeekOfLine(lines, i) : i \in dated}
         /\ \A w \in DOMAIN weekly :
              LET inWeek == {i \in dated : WeekOfLine(lines, i) = w}
              IN /\ IsMonday(w)
                 /\ weekly[w].commits =
                      {HashOf(lines[GoverningMarker(lines, i)]) : i \in inWeek}
                 /\ weekly[w].inserts = SumCounts(lines, inWeek, 1)
                 /\ weekly[w].deletes = SumCounts(lines, inWeek, 2)

\* An author with a commit of a Monday and a commit of the Sunday after it
\* in one bucket.
C11_Witness ==
  /\ pc = "done"
  /\ \E a \in DOMAIN stats : \E w \in DOMAIN stats[a].weekly :
       /\ Cardinality(stats[a].weekly[w].commits) = 2
       /\ \E i, j \in DatedLinesCountedFor(lines, EXCLUDE_DOCS, a) :
            /\ DateOf(lines[GoverningMarker(lines, i)])[1] = w
            /\ DateOf(lines[GoverningMarker(lines, j)])[1] = w + 6

\* ------------------------------------------------- logs of malformed lines
\* Lines the parser has to recover from, among lines it counts.
NumstatTwoFields == <<"5","\t","s","r","c","/","a","p","p",".","t","s">>
NumstatWord      == <<"x","\t","2","\t","s","r","c","/","a","p","p",".","t","s">>
NumstatHalfWord  == <<"2","\t","x","\t","s","r","c","/","a","p","p",".","t","s">>

PoolMalformed ==
  { MarkerAlice, MarkerShort, MarkerNoDate, NumstatTs, NumstatMakefile,
    NumstatTwoFields, NumstatWord, NumstatHalfWord, NumstatTrailing,
    BlankLine }

MalformedLogs == {JoinLines(ls) : ls \in SeqsUpTo(PoolMalformed, MaxLines)}

\* parse_git_log is called on a log with malformed lines.
InitMalformed ==
  /\ EXCLUDE_DOCS = FALSE
  /\ log_output \in MalformedLogs
  /\ lines = <<>>
  /\ idx = 1
  /\ pc = "start"
  /\ stats = EmptyMap
  /\ order = <<>>
  /\ current_author = None
  /\ current_commit = None
  /\ current_date = <<>>
  /\ AnalysisIdle
  /\ ClassifierIdle
  /\ WorkersIdle

\* The control flow of parse_git_log: the call enters the loop, an iteration
\* ends and the next line is taken, the exhausted loop returns.
LoopAdvances ==
  \/ pc = "start" /\ pc' = "loop" /\ idx' = 1
  \/ pc = "loop" /\ idx <= Len(lines) /\ idx' = idx + 1 /\ pc' = pc
  \/ pc = "loop" /\ idx > Len(lines) /\ pc' = "done" /\ idx' = idx

\* The function is sequential code that the interpreter keeps running: no
\* line handler waits or loops, so the control flow keeps advancing.
SpecMalformed == InitMalformed /\ [][Next]_vars /\ WF_<<pc, idx>>(LoopAdvances)

\* The malformed lines: a marker of fewer than four fields, a marker whose
\* date does not parse, a numstat line of the wrong field count or with a
\* count that is not a number (the binary "-" apart).
IsShortMarker(line) == IsMarker(line) /\ Len(split(line, "|")) < 4

IsUndatedMarker(line) == IsValidMarker(line) /\ DateOf(line) = <<>>

IsMalformedNumstat(line) ==
  /\ line # <<>>
  /\ ~IsMarker(line)
  /\ LET f == split(line, "\t")
     IN \/ Len(f) # 3
        \/ /\ f[1] # <<"-">> /\ f[2] # <<"-">>
           /\ ~PyInt(f[1]).ok \/ ~PyInt(f[2]).ok

\* ls without its line i.
Without(ls, i) == SubSeq(ls, 1, i - 1) \o SubSeq(ls, i + 1, Len(ls))

\* The log without its line i parses to `result`.
AsIfAbsent(ls, i, excludeDocs, result) ==
  parse_git_log(JoinLines(Without(ls, i)), excludeDocs).stats = result

\* C12 as claimed: the scan always reaches the end and returns, and the
\* result is what it would be without any one malformed line, a marker with
\* an unparseable date included.
C12_EveryMalformedLineAsIfAbsent ==
  /\ <>(pc = "done")
  /\ [](pc = "done" =>
          \A i \in 1..Len(RawLines(log_output)) :
            (\/ IsShortMarker(RawLines(log_output)[i])
             \/ IsUndatedMarker(RawLines(log_output)[i])
             \/ IsMalformedNumstat(RawLines(log_output)[i]))
              => AsIfAbsent(RawLines(log_output), i, EXCLUDE_DOCS, stats))

\* C12 as amended: the scan always reaches the end and returns with every
\* line read, and in a log no line of which starts or ends with whitespace
\* the result is what it would be without any one short marker or
\* malformed numstat line.  (A marker whose date does not parse is not
\* skipped: it sets the commit and the author, and the date to None.)
C12_SkippedLineAsIfAbsent ==
  /\ <>(pc = "done")
  /\ [](pc = "done" =>
          /\ idx = Len(lines) + 1
          /\ NoEdgeWhitespace(RawLines(log_output)) =>
               \A i \in 1..Len(RawLines(log_output)) :
                 (\/ IsShortMarker(RawLines(log_output)[i])
                  \/ IsMalformedNumstat(RawLines(log_output)[i]))
                   => AsIfAbsent(RawLines(log_output), i, EXCLUDE_DOCS, stats))

\* A log read to its end in which a line with a count that is not a number
\* stands between a marker and a line that is counted.
C12_Witness ==
  /\ pc = "done"
  /\ NoEdgeWhitespace(RawLines(log_output))
  /\ Len(lines) = 3
  /\ IsValidMarker(lines[1])
  /\ IsMalformedNumstat(lines[2]) /\ Len(split(lines[2], "\t")) = 3
  /\ Countable(lines[3], EXCLUDE_DOCS)
  /\ stats # EmptyMap

\* No line of ls is a valid marker, or none is a countable numstat line.
Quiet(ls, excludeDocs) ==
  \/ \A i \in 1..Len(ls) : ~IsValidMarker(ls[i])
  \/ \A i \in 1..Len(ls) : ~Countable(ls[i], excludeDocs)

\* C13: a log that is empty, or of blank lines only, or without a valid
\* marker, or without a countable numstat line, parses to the empty
\* mapping, and the iteration of analyze_repos for a repository whose log
\* is empty leaves the rows and the three global maps as they were.
C13_QuietLogGivesNothing ==
  /\ [][(apc = "loop" /\ ri <= Len(repos) /\ repos[ri].log = <<>>)
          => UNCHANGED <<all_data, weekly_stats, ext_stats, category_stats>>]_vars
  /\ [](\A k \in 1..(ri - 1) :
          Quiet(LinesOf(repos[k].log), EXCLUDE_DOCS)
            => parse_git_log(repos[k].log, EXCLUDE_DOCS).stats = EmptyMap)

\* analyze_repos has returned from a repository whose log has a valid
\* marker and no countable line and a repository whose log is empty.
C13_Witness ==
  /\ apc = "done"
  /\ Len(repos) = 2
  /\ repos[1].log # <<>>
  /\ \E i \in 1..Len(LinesOf(repos[1].log)) : IsValidMarker(LinesOf(repos[1].log)[i])
  /\ Quiet(LinesOf(repos[1].log), EXCLUDE_DOCS)
  /\ repos[2].log = <<>>
  /\ all_data = <<>>

\* The rows an iteration of analyze_repos has appended.
RowsAdded == SubSeq(all_data', Len(all_data) + 1, Len(all_data'))

\* C14: the iteration of analyze_repos for a repository appends exactly one
\* row for every author of the repository's parse result whose insertions
\* or deletions are not zero and no other row; the row names the author
\* and the repository, its commits is the size of the author's commit set,
\* its inserts and deletes are the author's totals and its net their
\* difference.
C14_OneRowPerActiveAuthor ==
  [][(apc = "loop" /\ ri <= Len(repos) /\ repos[ri].log # <<>>) =>
       LET parsed == parse_git_log(repos[ri].log, EXCLUDE_DOCS).stats
           active == {a \in DOMAIN parsed :
                        parsed[a].inserts # 0 \/ parsed[a].deletes # 0}
       IN /\ SubSeq(all_data', 1, Len(all_data)) = all_data
          /\ \A a \in active :
               Cardinality({i \in 1..Len(RowsAdded) : RowsAdded[i].author = a}) = 1
          /\ \A i \in 1..Len(RowsAdded) :
               LET row == RowsAdded[i]
               IN /\ row.author \in active
                  /\ row.repo = repos[ri].name
                  /\ row.commits = Cardinality(parsed[row.author].commits)
                  /\ row.inserts = parsed[row.author].inserts
                  /\ row.deletes = parsed[row.author].deletes
                  /\ row.net = row.inserts - row.deletes]_vars

\* The authors with a counted line in ls, by trimmed name.
AuthorsCounted(ls, excludeDocs) ==
  {AuthorOf(ls[GoverningMarker(ls, i)]) :
     i \in {j \in 1..Len(ls) :
              /\ GoverningMarker(ls, j) # 0
              /\ CountedFor(ls, j, excludeDocs, AuthorOf(ls[GoverningMarker(ls, j)]),
                            HashOf(ls[GoverningMarker(ls, j)]))}}

\* C15: the commits whose markers carry the same trimmed author name share
\* one entry of the result, keyed by that name: its totals are the sums
\* over the counted lines of all those commits, its commit count is the
\* number of their distinct hashes, and commits dated in different weeks
\* have different weekly buckets, none holding a hash of the other's week.
C15_SameAuthorSharesOneEntry ==
  pc = "done" =>
    /\ DOMAIN stats = AuthorsCounted(lines, EXCLUDE_DOCS)
    /\ \A a \in DOMAIN stats :
         LET counted == LinesCountedFor(lines, EXCLUDE_DOCS, a)
             dated   == DatedLinesCountedFor(lines, EXCLUDE_DOCS, a)
         IN /\ strip(a) = a
            /\ stats[a].inserts = SumCounts(lines, counted, 1)
            /\ stats[a].deletes = SumCounts(lines, counted, 2)
            /\ Cardinality(stats[a].commits)
                 = Cardinality({HashOf(lines[GoverningMarker(lines, i)]) : i \in counted})
            /\ \A i, j \in dated :
                 WeekOfLine(lines, i) # WeekOfLine(lines, j) =>
                   /\ WeekOfLine(lines, i) \in DOMAIN stats[a].weekly
                   /\ WeekOfLine(lines, j) \in DOMAIN stats[a].weekly
                   /\ HashOf(lines[GoverningMarker(lines, j)])
                        \notin stats[a].weekly[WeekOfLine(lines, i)].commits

\* Two commits of Bob in different weeks, 3/0 and 7/1: totals 10 and 1, two
\* commits, two weekly buckets of one commit each.
C15_Witness ==
  /\ pc = "done"
  /\ DOMAIN stats = {<<"B","o","b">>}
  /\ stats[<<"B","o","b">>].inserts = 10
  /\ stats[<<"B","o","b">>].deletes = 1
  /\ Cardinality(stats[<<"B","o","b">>].commits) = 2
  /\ Cardinality(DOMAIN stats[<<"B","o","b">>].weekly) = 2
  /\ \A w \in DOMAIN stats[<<"B","o","b">>].weekly :
       Cardinality(stats[<<"B","o","b">>].weekly[w].commits) = 1

\* C16: an author is a key of the result exactly when a numstat line under
\* one of the author's commits has been counted, and a hash is in a commit
\* set only when a line under that commit has been counted: a commit
\* without file lines, or with only binary, excluded or malformed lines,
\* gives its author no entry and no commit set its hash.
C16_EntryOnlyForCountedLine ==
  pc # "start" =>
    LET read == SubSeq(lines, 1, idx - 1)
    IN /\ DOMAIN stats = AuthorsCounted(read, EXCLUDE_DOCS)
       /\ \A a \in DOMAIN stats : \A h \in stats[a].commits :
            \E i \in 1..Len(read) : CountedFor(read, i, EXCLUDE_DOCS, a, h)

\* The log is read, an author has an entry, and the commit of another
\* author, who is not excluded, had file lines and none counted.
C16_Witness ==
  /\ pc = "done"
  /\ stats # EmptyMap
  /\ \E g \in 1..(Len(lines) - 1) :
       /\ IsValidMarker(lines[g])
       /\ Truthy(AuthorOf(lines[g]))
       /\ ~should_exclude_author(AuthorOf(lines[g]))
       /\ AuthorOf(lines[g]) \notin DOMAIN stats
       /\ ~IsMarker(lines[g + 1]) /\ lines[g + 1] # <<>>


\* ------------------------------------------------ the classifier, called
\* File names and directories the classifier's rules tell apart.
ClassifierNames ==
  { <<"a","p","p",".","t","s">>, <<"a","p","p",".","t","e","s","t",".","t","s">>, <<"A","p","p",".","T","e","s","t",".","t","s">>, <<"a","p","p",".","s","p","e","c",".","j","s">>,
    <<"a","_","t","e","s","t",".","g","o">>, <<"D","o","c","k","e","r","f","i","l","e">>, <<"d","o","c","k","e","r","f","i","l","e",".","p","r","o","d">>, <<"D","o","c","k","e","r","f","i","l","e",".","T","E","S","T",".","x">>,
    <<"M","a","k","e","f","i","l","e">>, <<"R","E","A","D","M","E",".","m","d">>, <<"n","o","t","e","s",".","T","X","T">>, <<"l","a","y","o","u","t",".","t","s","x">>, <<"a",".","h","t","m","l">>,
    <<"c","i",".","y","m","l">>, <<"p","a","c","k","a","g","e","-","l","o","c","k",".","j","s","o","n">>, <<"t","y","p","e","s",".","t","s">>, <<"a",".","m","i","n",".","j","s">>,
    <<"l","o","g","o",".","P","N","G">>, <<".","e","n","v">>, <<"x",".","e","n","v">>, <<"s","c","h","e","m","a",".","s","q","l">>, <<"r","u","n",".","s","h">> }

ClassifierDirs ==
  { <<"s","r","c","/">>, <<"o","u","t","/">>, <<"n","o","d","e","_","m","o","d","u","l","e","s","/">>, <<".","g","i","t","h","u","b","/">>, <<"t","e","m","p","l","a","t","e","s","/">>,
    <<"B","u","i","l","d","/">> }

\* The most directories a path under check has.
MaxDirs == 1

RECURSIVE PathsOfDepth(_)
PathsOfDepth(n) ==
  IF n = 0 THEN ClassifierNames
  ELSE {d \o p : d \in ClassifierDirs, p \in PathsOfDepth(n - 1)}

ClassifierPaths == UNION {PathsOfDepth(n) : n \in 0..MaxDirs}

\* The classifier is about to be called on some path, main() having set
\* EXCLUDE_DOCS from --no-docs or left it.
InitClassify ==
  /\ EXCLUDE_DOCS \in BOOLEAN
  /\ ParserIdle
  /\ AnalysisIdle
  /\ path_arg \in ClassifierPaths
  /\ returned = NoCall
  /\ WorkersIdle

\* get_file_category(path_arg) is called and returns.
CallGetFileCategory ==
  /\ returned' = [fn |-> "get_file_category", value |-> get_file_category(path_arg)]
  /\ UNCHANGED <<EXCLUDE_DOCS, parserVars, analysisVars, workerVars, path_arg>>

\* should_exclude_file(path_arg) is called and returns.
CallShouldExcludeFile ==
  /\ returned' = [fn |-> "should_exclude_file",
                  value |-> should_exclude_file(path_arg, EXCLUDE_DOCS)]
  /\ UNCHANGED <<EXCLUDE_DOCS, parserVars, analysisVars, workerVars, path_arg>>

NextClassify == CallGetFileCategory \/ CallShouldExcludeFile

SpecClassify == InitClassify /\ [][NextClassify]_vars

\* The ten category labels.
CategoryLabels ==
  {"frontend", "backend", "fullstack", "database", "config", "infra", "docs",
   "scripts", "testing", "other"}

\* The last component of a path, and its extension: the part from its last
\* dot on, when a character other than a dot comes before that dot.
LastComponent(p) ==
  LET slashes == {k \in 1..Len(p) : p[k] = "/"}
  IN IF slashes = {} THEN p
     ELSE SubSeq(p, (CHOOSE k \in slashes : \A j \in slashes : j <= k) + 1, Len(p))

ExtensionOf(p) ==
  LET b == LastComponent(p)
      dots == {k \in 1..Len(b) : b[k] = "."}
  IN IF dots = {} THEN <<>>
     ELSE LET d == CHOOSE k \in dots : \A j \in dots : j <= k
          IN IF \E k \in 1..(d - 1) : b[k] # "." THEN SubSeq(b, d, Len(b))
             ELSE <<>>

HasTestMark(name) ==
  \E mark \in { <<".","t","e","s","t",".">>, <<".","s","p","e","c",".">>, <<"_","t","e","s","t",".">> } :
    \E k \in 1..(Len(name) - Len(mark) + 1) :
      SubSeq(name, k, k + Len(mark) - 1) = mark

IsDockerfileName(name) ==
  \/ name = <<"d","o","c","k","e","r","f","i","l","e">>
  \/ Len(name) >= 11 /\ SubSeq(name, 1, 11) = <<"d","o","c","k","e","r","f","i","l","e",".">>

\* The table entry for the lowercased extension, "other" when there is none.
TableCategory(p, category) ==
  IF \E e \in FILE_CATEGORIES : e[1] = ExtensionOf(lower(p))
  THEN <<ExtensionOf(lower(p)), category>> \in FILE_CATEGORIES
  ELSE category = "other"

\* The precedence of the three rules, the test marks being looked for in
\* `name`, a form of the basename.
ByPrecedence(p, name, category) ==
  /\ HasTestMark(name) => category = "testing"
  /\ ~HasTestMark(name) /\ IsDockerfileName(lower(LastComponent(p)))
       => category = "infra"
  /\ ~HasTestMark(name) /\ ~IsDockerfileName(lower(LastComponent(p)))
       => TableCategory(p, category)
  /\ category \in CategoryLabels

\* C17 as claimed: the test marks are looked for in the basename as it is
\* written, only the dockerfile rule and the extension ignoring case; the
\* first rule that matches gives the category, one of the ten labels.
C17_CategoryByPrecedenceAsWritten ==
  returned.fn = "get_file_category" =>
    ByPrecedence(path_arg, LastComponent(path_arg), returned.value)

\* C17 as amended: the same, the test marks being looked for in the
\* lowercased basename.
C17_CategoryByPrecedenceLowercased ==
  returned.fn = "get_file_category" =>
    ByPrecedence(path_arg, lower(LastComponent(path_arg)), returned.value)

\* A name that is a dockerfile name and has a test mark, in capitals, has
\* been categorised: it is 'testing'.
C17_Witness ==
  /\ returned.fn = "get_file_category"
  /\ IsDockerfileName(lower(LastComponent(path_arg)))
  /\ HasTestMark(lower(LastComponent(path_arg)))
  /\ ~HasTestMark(LastComponent(path_arg))
  /\ returned.value = "testing"

\* A pattern matches the full path, its basename, or a suffix of the path
\* after a "/".
GlobExcludes(p, pattern) ==
  \/ fnmatch(p, pattern)
  \/ fnmatch(LastComponent(p), pattern)
  \/ \E k \in 1..Len(p) : p[k] = "/" /\ fnmatch(SubSeq(p, k + 1, Len(p)), pattern)

\* A directory-style pattern ends in "/" or "/*"; its text is the pattern
\* up to that "/".
IsDirectoryStyle(pattern) ==
  \/ pattern # <<>> /\ pattern[Len(pattern)] = "/"
  \/ Len(pattern) >= 2 /\ SubSeq(pattern, Len(pattern) - 1, Len(pattern)) = <<"/","*">>

DirectoryText(pattern) ==
  IF pattern[Len(pattern)] = "/" THEN pattern
  ELSE SubSeq(pattern, 1, Len(pattern) - 1)

\* The three rules of exclusion.
ExcludedByRule(p, excludeDocs) ==
  \/ excludeDocs /\ ExtensionOf(lower(p)) \in DOC_EXTENSIONS
  \/ \E k \in 1..Len(EXCLUDE_PATTERNS) : GlobExcludes(p, EXCLUDE_PATTERNS[k])
  \/ \E k \in 1..Len(EXCLUDE_PATTERNS) :
       /\ IsDirectoryStyle(EXCLUDE_PATTERNS[k])
       /\ contains(lower(p), DirectoryText(EXCLUDE_PATTERNS[k]))

\* C18: should_exclude_file returns true exactly when the documentation
\* rule, a glob match of the path, its basename or a suffix after a "/", or
\* a directory-style pattern found in the lowercased path excludes the
\* path, and false for every other path.
C18_ExcludedExactlyByTheRules ==
  returned.fn = "should_exclude_file" =>
    (returned.value <=> ExcludedByRule(path_arg, EXCLUDE_DOCS))

\* ------------------------------------------------ markers of few fields
\* The step reads line idx of the log.
ReadsLine == pc = "loop" /\ idx <= Len(lines) /\ idx' = idx + 1

\* Line i comes after a marker of fewer than four fields with no valid
\* marker in between.
FollowsShortMarker(ls, i) ==
  \E j \in (GoverningMarker(ls, i) + 1)..(i - 1) : IsShortMarker(ls[j])

\* The entry of author a went from `old` to `new` by a line of the commit
\* of the valid marker: its hash joined the commits, and the bucket of the
\* Monday of its week (none if its date does not parse) has the hash.
AttributedTo(marker, old, new) ==
  /\ new.commits = old.commits \cup {HashOf(marker)}
  /\ IF DateOf(marker) = <<>> THEN new.weekly = old.weekly
     ELSE LET w == MondayOnOrBefore(DateOf(marker)[1])
          IN /\ DOMAIN new.weekly = DOMAIN old.weekly \cup {w}
             /\ HashOf(marker) \in new.weekly[w].commits
             /\ \A v \in DOMAIN old.weekly : v # w => new.weekly[v] = old.weekly[v]

\* C20: reading a line that starts with "COMMIT|" and has fewer than four
\* fields changes neither the current hash, author and date nor any
\* accumulator; a file line read after it is ignored when no valid marker
\* came before or the author of the last one is suppressed, and otherwise
\* changes nothing or is counted for the author, hash and week of the last
\* valid marker and for no one else.
C20_ShortMarkerKeepsCommit ==
  [][ /\ ReadsLine /\ IsShortMarker(lines[idx])
        => UNCHANGED <<stats, order, current_author, current_commit, current_date>>
      /\ ReadsLine /\ ~IsMarker(lines[idx]) /\ FollowsShortMarker(lines, idx)
        => LET g == GoverningMarker(lines, idx)
           IN IF g = 0 \/ should_exclude_author(AuthorOf(lines[g]))
              THEN stats' = stats
              ELSE \/ stats' = stats
                   \/ LET a == AuthorOf(lines[g])
                      IN /\ DOMAIN stats' = DOMAIN stats \cup {a}
                         /\ \A b \in DOMAIN stats : b # a => stats'[b] = stats[b]
                         /\ AttributedTo(lines[g], Lookup(stats, a, NewAuthorStats),
                                         stats'[a])
    ]_vars

\* A file line read right after a short marker has been counted for the
\* author and the hash of the valid marker before it.
C20_Witness ==
  \E i \in 3..(idx - 1) :
    /\ IsShortMarker(lines[i - 1])
    /\ IsValidMarker(lines[i - 2])
    /\ Countable(lines[i], EXCLUDE_DOCS)
    /\ AuthorOf(lines[i - 2]) \in DOMAIN stats
    /\ stats[AuthorOf(lines[i - 2])].commits = {HashOf(lines[i - 2])}
    /\ stats[AuthorOf(lines[i - 2])].inserts > 0

\* ------------------------------------------------- commits without a date
\* The step reads a line that is counted: a countable file line under a
\* valid marker g of an author who is named and not excluded.
ReadsCountedLine(g) ==
  /\ ReadsLine
  /\ Countable(lines[idx], EXCLUDE_DOCS)
  /\ g = GoverningMarker(lines, idx)
  /\ g # 0
  /\ AuthorOf(lines[g]) # <<>>
  /\ ~should_exclude_author(AuthorOf(lines[g]))

\* The counts and the path of a file line.
InsOf(line) == PyInt(split(line, "\t")[1]).val

DelsOf(line) == PyInt(split(line, "\t")[2]).val

PathOf(line) == split(line, "\t")[3]

\* Bucket `key` of map `new` is that of `old` with the counts added.
BucketAdds(old, new, key, ins, dels) ==
  /\ key \in DOMAIN new
  /\ new[key].inserts = Lookup(old, key, NewBucket).inserts + ins
  /\ new[key].deletes = Lookup(old, key, NewBucket).deletes + dels

HasBadCount(line) ==
  /\ line # <<>>
  /\ ~IsMarker(line)
  /\ LET f == split(line, "\t")
     IN Len(f) = 3 /\ (~PyInt(f[1]).ok \/ ~PyInt(f[2]).ok)

\* C22: reading a three-field file line one count of which is not an
\* integer, whichever of the two, changes neither the entries of stats
\* (no entry is made, no commit, total or bucket changes) nor the rest of
\* the parser state.
C22_BadCountLineChangesNothing ==
  [][ ReadsLine /\ HasBadCount(lines[idx])
        => UNCHANGED <<stats, order, current_author, current_commit, current_date>>
    ]_vars

\* A line whose insertions parse and whose deletions do not has been read
\* under a valid marker of a counted author, who has no entry.
C22_Witness ==
  \E i \in 2..(idx - 1) :
    /\ HasBadCount(lines[i])
    /\ PyInt(split(lines[i], "\t")[1]).ok
    /\ split(lines[i], "\t")[2] # <<"-">>
    /\ ~ExcludeFile(split(lines[i], "\t")[3], EXCLUDE_DOCS)
    /\ GoverningMarker(lines, i) # 0
    /\ AuthorOf(lines[GoverningMarker(lines, i)]) # <<>>
    /\ ~should_exclude_author(AuthorOf(lines[GoverningMarker(lines, i)]))
    /\ AuthorOf(lines[GoverningMarker(lines, i)]) \notin DOMAIN stats

\* ------------------------------------- lines of other shapes, early lines
\* C23: reading a line that does not start with "COMMIT|" and either does
\* not split on tab into exactly three fields or comes before the first
\* valid marker of the log changes neither stats nor the current hash,
\* author and date.
C23_MisshapenOrEarlyLineChangesNothing ==
  [][ (/\ ReadsLine
       /\ ~IsMarker(lines[idx])
       /\ \/ Len(split(lines[idx], "\t")) # 3
          \/ GoverningMarker(lines, idx) = 0)
        => UNCHANGED <<stats, order, current_author, current_commit, current_date>>
    ]_vars

\* A countable file line has been read before any marker, and a line of
\* two fields under a valid marker of a counted author.
C23_Witness ==
  /\ \E i \in 1..(idx - 1) :
       Countable(lines[i], EXCLUDE_DOCS) /\ GoverningMarker(lines, i) = 0
  /\ \E i \in 1..(idx - 1) :
       /\ lines[i] # <<>> /\ ~IsMarker(lines[i])
       /\ Len(split(lines[i], "\t")) = 2
       /\ GoverningMarker(lines, i) # 0
       /\ ~should_exclude_author(AuthorOf(lines[GoverningMarker(lines, i)]))

\* ------------------------------------------- the global maps as sums
\* What parse_git_log gives for repository k of the list.
ParsedRepo(k) ==
  IF repos[k].log = <<>> THEN EmptyMap
  ELSE parse_git_log(repos[k].log, EXCLUDE_DOCS).stats

\* The processed repositories in which the author has activity that is
\* not zero.
ActiveRepos(a) ==
  {k \in 1..(ri - 1) :
     /\ a \in DOMAIN ParsedRepo(k)
     /\ ParsedRepo(k)[a].inserts # 0 \/ ParsedRepo(k)[a].deletes # 0}

\* The three per-author maps of a parse result and the global map each is
\* folded into.
FoldedMaps == {"weekly", "by_ext", "by_category"}

GlobalMap(map) ==
  IF map = "weekly" THEN weekly_stats
  ELSE IF map = "by_ext" THEN ext_stats ELSE category_stats

\* The keys the author has in that map in the repositories of K, and the
\* sum over K of a field of the bucket of one key.
KeysIn(K, a, map) == UNION {DOMAIN ParsedRepo(k)[a][map] : k \in K}

RECURSIVE SumRepos(_, _, _, _, _)
SumRepos(K, a, map, key, field) ==
  IF K = {} THEN 0
  ELSE LET k == CHOOSE x \in K : TRUE
           m == ParsedRepo(k)[a][map]
       IN (IF key \in DOMAIN m THEN m[key][field] ELSE 0)
            + SumRepos(K \ {k}, a, map, key, field)

AuthorsParsed == UNION {DOMAIN ParsedRepo(k) : k \in 1..(ri - 1)}

\* C24: after any number of repositories, every global map has, for every
\* author, exactly the keys the author has in the processed repositories
\* where the author's activity is not zero; the value of a key is the sum
\* of the repositories' values, and the commits of a global week are the
\* union of the repositories' commits of that week.
C24_GlobalMapsAreSumsOverRepositories ==
  \A map \in FoldedMaps :
    \A a \in AuthorsParsed \cup DOMAIN GlobalMap(map) :
      LET K    == ActiveRepos(a)
          keys == KeysIn(K, a, map)
      IN /\ a \in DOMAIN GlobalMap(map) <=> keys # {}
         /\ keys # {} =>
              /\ DOMAIN GlobalMap(map)[a] = keys
              /\ \A key \in keys :
                   /\ GlobalMap(map)[a][key].inserts = SumRepos(K, a, map, key, "inserts")
                   /\ GlobalMap(map)[a][key].deletes = SumRepos(K, a, map, key, "deletes")
                   /\ map = "weekly" =>
                        GlobalMap(map)[a][key].commits =
                          UNION {ParsedRepo(k)[a].weekly[key].commits :
                                   k \in {j \in K : key \in DOMAIN ParsedRepo(j)[a].weekly}}

\* ------------------------------------------- weekly and overall commits
\* Every commit that gave the author a counted line has a date that parses.
AllContributingDated(ls, excludeDocs, a) ==
  \A i \in LinesCountedFor(ls, excludeDocs, a) :
    DateOf(ls[GoverningMarker(ls, i)]) # <<>>

\* C26: after parse_git_log, for every author the commits of each weekly
\* bucket are among the author's commits, and the weekly buckets' commits
\* together are all of the author's commits when every commit that
\* contributed has a date that parses.
C26_WeeklyCommitsWithinOverall ==
  pc = "done" =>
    \A a \in DOMAIN stats :
      /\ \A w \in DOMAIN stats[a].weekly :
           stats[a].weekly[w].commits \subseteq stats[a].commits
      /\ AllContributingDated(lines, EXCLUDE_DOCS, a) =>
           UNION {stats[a].weekly[w].commits : w \in DOMAIN stats[a].weekly}
             = stats[a].commits

\* An author all of whose commits are dated has two weekly buckets with
\* different hashes.
C26_Witness ==
  /\ pc = "done"
  /\ \E a \in DOMAIN stats :
       /\ AllContributingDated(lines, EXCLUDE_DOCS, a)
       /\ Cardinality(stats[a].commits) = 2
       /\ Cardinality(DOMAIN stats[a].weekly) = 2

\* ------------------------------------------ directory names in a path
\* The name of the directory of a directory-style pattern, and the
\* components of a path.
DirectoryName(pattern) ==
  SubSeq(DirectoryText(pattern), 1, Len(DirectoryText(pattern)) - 1)

Components(p) == {split(p, "/")[i] : i \in 1..Len(split(p, "/"))}

\* No rule other than a directory name excludes the path.
NoOtherRule(p, excludeDocs) ==
  /\ ~(excludeDocs /\ ExtensionOf(lower(p)) \in DOC_EXTENSIONS)
  /\ \A k \in 1..Len(EXCLUDE_PATTERNS) : ~GlobExcludes(p, EXCLUDE_PATTERNS[k])

\* C27: a path that the documentation rule and the patterns as globs let
\* pass is excluded only when the directory name of a directory pattern
\* is a whole component of the lowercased path, not when the name is
\* merely part of a file or directory name.
C27_DirectoryNameIsWholeComponent ==
  returned.fn = "should_exclude_file" /\ returned.value
    /\ NoOtherRule(path_arg, EXCLUDE_DOCS)
    => \E k \in 1..Len(EXCLUDE_PATTERNS) :
         /\ IsDirectoryStyle(EXCLUDE_PATTERNS[k])
         /\ DirectoryName(EXCLUDE_PATTERNS[k]) \in Components(lower(path_arg))

\* ------------------------------------------------ documentation excluded
\* The paths of the three-field lines of a log.
PathsOfLog(log) ==
  {PathOf(LinesOf(log)[i]) :
     i \in {j \in 1..Len(LinesOf(log)) : Len(split(LinesOf(log)[j], "\t")) = 3}}

\* C28: with EXCLUDE_DOCS set, the parse result of no processed repository
\* has, for any author, a 'docs' category bucket or an extension bucket
\* keyed .md, .mdx, .rst or .txt, nor have the global maps; and every path
\* of the logs that get_file_category labels 'docs' is one that
\* should_exclude_file rejects.
C28_NoDocsBucketWhenDocsExcluded ==
  EXCLUDE_DOCS =>
    /\ \A k \in 1..(ri - 1) :
         /\ \A a \in DOMAIN ParsedRepo(k) :
              /\ "docs" \notin DOMAIN ParsedRepo(k)[a].by_category
              /\ DOMAIN ParsedRepo(k)[a].by_ext \cap DOC_EXTENSIONS = {}
         /\ \A p \in PathsOfLog(repos[k].log) :
              get_file_category(p) = "docs" => should_exclude_file(p, EXCLUDE_DOCS)
    /\ \A a \in DOMAIN category_stats : "docs" \notin DOMAIN category_stats[a]
    /\ \A a \in DOMAIN ext_stats : DOMAIN ext_stats[a] \cap DOC_EXTENSIONS = {}

\* With EXCLUDE_DOCS set, a repository with documentation files in small
\* and capital letters and a counted file under one author has been
\* processed and has given the author a row.
C28_Witness ==
  /\ EXCLUDE_DOCS
  /\ apc = "done"
  /\ \E k \in 1..Len(repos) :
       /\ \E p, q \in PathsOfLog(repos[k].log) :
            /\ splitext(p) \in DOC_EXTENSIONS
            /\ splitext(q) \notin DOC_EXTENSIONS /\ get_file_category(q) = "docs"
       /\ \E i \in 1..Len(all_data) : all_data[i].repo = repos[k].name

\* --------------------------------------------- rows and global categories
\* The rows of an author, and the sum of a field over them.
RowsOf(a) == {i \in 1..Len(all_data) : all_data[i].author = a}

RECURSIVE SumRows(_, _)
SumRows(S, field) ==
  IF S = {} THEN 0
  ELSE LET i == CHOOSE x \in S : TRUE
       IN all_data[i][field] + SumRows(S \ {i}, field)

\* C29: after any number of repositories, for every author with a row or
\* with global category buckets the buckets' insertions sum to the
\* inserts of the author's rows and the deletions to their deletes, and
\* every author of the global weekly, extension and category maps has a
\* row.
C29_CategorySumsEqualRowSums ==
  /\ \A a \in DOMAIN category_stats \cup {all_data[i].author : i \in 1..Len(all_data)} :
       /\ SumInserts(Lookup(category_stats, a, EmptyMap)) = SumRows(RowsOf(a), "inserts")
       /\ SumDeletes(Lookup(category_stats, a, EmptyMap)) = SumRows(RowsOf(a), "deletes")
  /\ \A a \in DOMAIN weekly_stats \cup DOMAIN ext_stats \cup DOMAIN category_stats :
       RowsOf(a) # {}

\* An author has rows from two repositories and more than one global
\* category bucket.
C29_Witness ==
  /\ apc = "done"
  /\ \E a \in DOMAIN category_stats :
       /\ Cardinality({all_data[i].repo : i \in RowsOf(a)}) = 2
       /\ Cardinality(DOMAIN category_stats[a]) >= 2

\* ------------------------------------------------------ a nameless author
\* C30: reading a file line under a valid marker whose author name is
\* empty once trimmed changes no entry of stats, and stats never has an
\* entry keyed by the empty string.
C30_EmptyAuthorCountsForNoOne ==
  /\ [][ \A g \in 1..Len(lines) :
           (/\ ReadsLine
            /\ ~IsMarker(lines[idx])
            /\ g = GoverningMarker(lines, idx)
            /\ AuthorOf(lines[g]) = <<>>)
             => UNCHANGED <<stats, order>>
       ]_vars
  /\ [](<<>> \notin DOMAIN stats)

\* A countable file line has been read under a marker whose author name is
\* blank, after a commit of a named author was counted.
C30_Witness ==
  /\ stats # EmptyMap
  /\ \E i \in 2..(idx - 1) :
       /\ Countable(lines[i], EXCLUDE_DOCS)
       /\ GoverningMarker(lines, i) > 1
       /\ AuthorOf(lines[GoverningMarker(lines, i)]) = <<>>

\* ------------------------------------------ repositories scanned in parallel
\* The most repositories scanned in parallel.
MaxWorkers == 2

\* The repositories of a parallel scan: two with the same author and the
\* same hash, one with a second author, one whose log is empty.
WorkerRepos == {r \in PoolRepos : r.name \in {"web", "api", "new"}}

\* A caller starts one scan per repository: each is a call of
\* get_git_log and parse_git_log with its own locals.
InitParallel ==
  /\ EXCLUDE_DOCS \in BOOLEAN
  /\ ParserIdle
  /\ ClassifierIdle
  /\ repos \in SeqsUpTo(WorkerRepos, MaxWorkers)
  /\ ri = 1
  /\ apc = "loop"
  /\ all_data = <<>>
  /\ weekly_stats = EmptyMap
  /\ ext_stats = EmptyMap
  /\ category_stats = EmptyMap
  /\ tasks = [k \in 1..Len(repos) |->
                [pc |-> "start", lines |-> <<>>, idx |-> 1, st |-> ParserStart]]

\* Mutant: current_author is one module-level name that every call
\* assigns and reads.
LocalsOf_SharedAuthor(ts, k) ==
  [ts[k].st EXCEPT !.current_author =
     LET setters == {j \in DOMAIN ts : ts[j].st.current_author # None}
     IN IF setters = {} THEN None
        ELSE ts[CHOOSE j \in setters : \A i \in setters : j <= i].st.current_author]

\* The locals of the call for repository k (lines 382-390).
LocalsOf(ts, k) == ts[k].st

\* Lines 460-461: get_git_log returned nothing for repository k.
TaskSkip(k) ==
  /\ tasks[k].pc = "start"
  /\ repos[k].log = <<>>
  /\ tasks' = [tasks EXCEPT ![k].pc = "merged"]
  /\ UNCHANGED <<EXCLUDE_DOCS, parserVars, analysisVars, classifierVars>>

\* Lines 382-392 of the call for repository k.
TaskBegin(k) ==
  /\ tasks[k].pc = "start"
  /\ repos[k].log # <<>>
  /\ tasks' = [tasks EXCEPT ![k] = [pc |-> "loop", lines |-> LinesOf(repos[k].log),
                                    idx |-> 1, st |-> ParserStart]]
  /\ UNCHANGED <<EXCLUDE_DOCS, parserVars, analysisVars, classifierVars>>

\* Lines 393-439 of the call for repository k: one iteration of the loop.
TaskReadLine(k) ==
  /\ tasks[k].pc = "loop"
  /\ tasks[k].idx <= Len(tasks[k].lines)
  /\ tasks' = [tasks EXCEPT
                 ![k].st = ParseLine(LocalsOf(tasks, k), tasks[k].lines[tasks[k].idx],
                                     EXCLUDE_DOCS),
                 ![k].idx = @ + 1]
  /\ UNCHANGED <<EXCLUDE_DOCS, parserVars, analysisVars, classifierVars>>

\* Line 440 of the call for repository k.
TaskReturn(k) ==
  /\ tasks[k].pc = "loop"
  /\ tasks[k].idx > Len(tasks[k].lines)
  /\ tasks' = [tasks EXCEPT ![k].pc = "parsed"]
  /\ UNCHANGED <<EXCLUDE_DOCS, parserVars, analysisVars, classifierVars>>

\* Lines 464-485 for the result of repository k, as one step under mutual
\* exclusion.
TaskMerge(k) ==
  /\ tasks[k].pc = "parsed"
  /\ SetAnalysisState(MergeRepository(AnalysisState, repos[k].name,
                                      [stats |-> tasks[k].st.stats,
                                       order |-> tasks[k].st.order]))
  /\ tasks' = [tasks EXCEPT ![k].pc = "merged"]
  /\ UNCHANGED <<EXCLUDE_DOCS, parserVars, classifierVars, repos, ri, apc>>

\* Lines 487-488: every repository is done and the results are returned.
AllMerged ==
  /\ apc = "loop"
  /\ \A k \in DOMAIN tasks : tasks[k].pc = "merged"
  /\ apc' = "done"
  /\ UNCHANGED <<EXCLUDE_DOCS, parserVars, classifierVars, workerVars, repos, ri,
                 all_data, weekly_stats, ext_stats, category_stats>>

NextParallel ==
  \/ \E k \in DOMAIN tasks :
       TaskSkip(k) \/ TaskBegin(k) \/ TaskReadLine(k) \/ TaskReturn(k) \/ TaskMerge(k)
  \/ AllMerged

SpecParallel == InitParallel /\ [][NextParallel]_vars

\* C25: whatever the interleaving of the calls, the result a call returns
\* is the parse of its own log under the exclusion configuration, and when
\* every result has been merged the rows, as a multiset, and the global
\* weekly, extension and category maps are those of analyze_repos run on
\* the repositories one after the other.
C25_ParallelScanEqualsSequentialRun ==
  /\ \A k \in DOMAIN tasks :
       tasks[k].pc = "parsed" =>
         /\ tasks[k].st.stats = parse_git_log(repos[k].log, EXCLUDE_DOCS).stats
         /\ tasks[k].st.order = parse_git_log(repos[k].log, EXCLUDE_DOCS).order
  /\ apc = "done" =>
       LET g == AnalyzeAll(repos, EXCLUDE_DOCS)
       IN /\ BagOfRows(all_data) = BagOfRows(g.all_data)
          /\ weekly_stats = g.weekly_stats
          /\ ext_stats = g.ext_stats
          /\ category_stats = g.category_stats

\* Two repositories with rows for the same author have been merged, the
\* second of the list first.
C25_Witness ==
  /\ apc = "done"
  /\ Len(repos) = 2
  /\ Len(all_data) >= 2
  /\ all_data[1].repo = repos[2].name
  /\ repos[1].name # repos[2].name
  /\ \E i \in 2..Len(all_data) :
       all_data[i].repo = repos[1].name /\ all_data[i].author = all_data[1].author
====
